---- MODULE Spec2Model ----
(***************************************************************************)
(* Model of the pane rendering core of decker: PrintStyle (SGR handling),  *)
(* StreamState (the streaming VT100 tokeniser), GlyphString, Cursor,       *)
(* ViewPort and Pane (push / write).                                       *)
(*                                                                         *)
(* Characters are modelled as strings, one per Rust `char`; a Rust string  *)
(* is a sequence of them.  CodePoint gives the scalar value of each        *)
(* character, so that the regex character classes and the `c as u8`        *)
(* tests are computed as the code computes them.                           *)
(***************************************************************************)
EXTENDS Integers, Sequences, FiniteSets, TLC

VARIABLES pane, out, renders, steps, feed, par, sty, hist, panes, ctl

vars == <<pane, out, renders, steps, feed, par, sty, hist, panes, ctl>>

(***************************************************************************)
(* Bounds of the model.                                                    *)
(***************************************************************************)
PaneWidth == 2
PaneHeight == 2
MaxSteps == 4
MaxParserInput == 5
PaneX == 3
PaneY == 2

(***************************************************************************)
(* Characters.                                                             *)
(***************************************************************************)
ESC == "ESC"
LF == "LF"
CR == "CR"
BS == "BS"
TAB == "TAB"
DEL == "DEL"
BEL == "BEL"
EACUTE == "U+E9"
CSI8 == "U+9B"

CodePoint(c) ==
    CASE c = BEL -> 7
      [] c = BS -> 8
      [] c = TAB -> 9
      [] c = LF -> 10
      [] c = CR -> 13
      [] c = ESC -> 27
      [] c = " " -> 32
      [] c = "%" -> 37
      [] c = "0" -> 48
      [] c = "1" -> 49
      [] c = "2" -> 50
      [] c = "3" -> 51
      [] c = "4" -> 52
      [] c = "5" -> 53
      [] c = "6" -> 54
      [] c = "7" -> 55
      [] c = "8" -> 56
      [] c = "9" -> 57
      [] c = ";" -> 59
      [] c = "=" -> 61
      [] c = ">" -> 62
      [] c = "?" -> 63
      [] c = "A" -> 65
      [] c = "B" -> 66
      [] c = "C" -> 67
      [] c = "D" -> 68
      [] c = "H" -> 72
      [] c = "J" -> 74
      [] c = "K" -> 75
      [] c = "L" -> 76
      [] c = "M" -> 77
      [] c = "O" -> 79
      [] c = "[" -> 91
      [] c = "f" -> 102
      [] c = "h" -> 104
      [] c = "k" -> 107
      [] c = "l" -> 108
      [] c = "m" -> 109
      [] c = "n" -> 110
      [] c = "r" -> 114
      [] c = DEL -> 127
      [] c = CSI8 -> 155
      [] c = EACUTE -> 233

\* Number of bytes of the UTF-8 encoding of a character (str::len counts bytes).
Utf8Len(c) == IF CodePoint(c) < 128 THEN 1 ELSE 2

RECURSIVE ByteLen(_)
ByteLen(s) == IF s = <<>> THEN 0 ELSE Utf8Len(Head(s)) + ByteLen(Tail(s))

IsDigit(c) == CodePoint(c) \in 48..57

DigitChars == <<"0", "1", "2", "3", "4", "5", "6", "7", "8", "9">>

\* format!("{}", n) for an unsigned integer
RECURSIVE FmtNum(_)
FmtNum(n) ==
    IF n < 10 THEN <<DigitChars[n + 1]>>
    ELSE FmtNum(n \div 10) \o <<DigitChars[(n % 10) + 1]>>

\* The value of a string of decimal digits (exact, no width).
RECURSIVE DigitsVal(_)
DigitsVal(s) ==
    IF s = <<>> THEN 0
    ELSE 10 * DigitsVal(SubSeq(s, 1, Len(s) - 1)) + (CodePoint(s[Len(s)]) - 48)

\* str::parse::<uN>() : -1 stands for Err (empty string or out of range).
ParseUnsigned(s, max) ==
    IF s = <<>> \/ (\E i \in 1..Len(s) : ~IsDigit(s[i])) THEN -1
    ELSE IF DigitsVal(s) > max THEN -1 ELSE DigitsVal(s)

U8Max == 255
U16Max == 65535
I32Max == 2147483647
U16Mod == 65536

\* s.split(";") : always at least one (possibly empty) part
RECURSIVE SplitSemi(_)
SplitSemi(s) ==
    IF \A i \in 1..Len(s) : s[i] # ";" THEN <<s>>
    ELSE LET i == CHOOSE k \in 1..Len(s) :
                      s[k] = ";" /\ \A j \in 1..(k - 1) : s[j] # ";"
         IN  <<SubSeq(s, 1, i - 1)>> \o SplitSemi(SubSeq(s, i + 1, Len(s)))

(***************************************************************************)
(* Color and PrintStyle.  A colour is <<kind, a, b, c>>.                   *)
(***************************************************************************)
Basic(k) == <<k, 0, 0, 0>>
TwoFiftySix(n) == <<"TWOFIFTYSIX", n, 0, 0>>
RGB(r, g, b) == <<"RGB", r, g, b>>

eight_color(base) ==
    CASE base % 10 = 0 -> Basic("Black")
      [] base % 10 = 1 -> Basic("Red")
      [] base % 10 = 2 -> Basic("Green")
      [] base % 10 = 3 -> Basic("Yellow")
      [] base % 10 = 4 -> Basic("Blue")
      [] base % 10 = 5 -> Basic("Magenta")
      [] base % 10 = 6 -> Basic("Cyan")
      [] OTHER -> Basic("White")

to_offset(color) ==
    CASE color[1] = "Black" -> 0
      [] color[1] = "Red" -> 1
      [] color[1] = "Green" -> 2
      [] color[1] = "Yellow" -> 3
      [] color[1] = "Blue" -> 4
      [] color[1] = "Magenta" -> 5
      [] color[1] = "Cyan" -> 6
      [] color[1] = "White" -> 7
      [] OTHER -> 255

DefaultStyle ==
    [foreground |-> Basic("White"), background |-> Basic("Black"),
     italicized |-> FALSE, underline |-> FALSE, invert |-> FALSE,
     blink |-> FALSE, bold |-> FALSE]

Sgr(params) == <<ESC, "[">> \o params \o <<"m">>

ExtendedString(color) ==
    IF color[1] = "TWOFIFTYSIX"
    THEN Sgr(<<"3", "8", ";", "5", ";">> \o FmtNum(color[2]))
    ELSE Sgr(<<"3", "8", ";", "2", ";">> \o FmtNum(color[2]) \o <<";">>
             \o FmtNum(color[3]) \o <<";">> \o FmtNum(color[4]))

background_string(s) ==
    IF s.background[1] \in {"TWOFIFTYSIX", "RGB"}
    THEN ExtendedString(s.background)
    ELSE Sgr(FmtNum((IF s.bold THEN 100 ELSE 40) + to_offset(s.background)))

foreground_string(s) ==
    IF s.foreground[1] \in {"TWOFIFTYSIX", "RGB"}
    THEN ExtendedString(s.foreground)
    ELSE Sgr(FmtNum((IF s.bold THEN 90 ELSE 30) + to_offset(s.foreground)))

diff_str(self, other) ==
    (IF self.foreground # other.foreground THEN foreground_string(other) ELSE <<>>)
    \o (IF self.background # other.background THEN background_string(other) ELSE <<>>)
    \o (IF self.underline # other.underline
        THEN (IF other.underline THEN Sgr(<<"4">>) ELSE Sgr(<<"2", "4">>)) ELSE <<>>)
    \o (IF self.blink # other.blink
        THEN (IF other.blink THEN Sgr(<<"5">>) ELSE Sgr(<<"2", "5">>)) ELSE <<>>)
    \o (IF self.italicized # other.italicized
        THEN (IF other.italicized THEN Sgr(<<"3">>) ELSE Sgr(<<"2", "3">>)) ELSE <<>>)
    \o (IF self.invert # other.invert
        THEN (IF other.invert THEN Sgr(<<"7">>) ELSE Sgr(<<"2", "7">>)) ELSE <<>>)

to_str(s) ==
    foreground_string(s) \o background_string(s)
    \o (IF s.blink THEN Sgr(<<"5">>) ELSE <<>>)
    \o (IF s.underline THEN Sgr(<<"4">>) ELSE <<>>)
    \o (IF s.italicized THEN Sgr(<<"3">>) ELSE <<>>)

reset(s) == DefaultStyle

\* Color::extended_color: Vec::remove(0) panics on an empty vector.
\* Returns the colour, the remaining arguments and the outcome.
extended_color(args) ==
    IF args = <<>> THEN [status |-> "Panic", color |-> Basic("Black"), rest |-> args]
    ELSE IF args[1] = 2 THEN
        IF Len(args) < 4 THEN [status |-> "Panic", color |-> Basic("Black"), rest |-> <<>>]
        ELSE [status |-> "Ok", color |-> RGB(args[2], args[3], args[4]),
              rest |-> SubSeq(args, 5, Len(args))]
    ELSE IF args[1] = 5 THEN
        IF Len(args) < 2 THEN [status |-> "Panic", color |-> Basic("Black"), rest |-> <<>>]
        ELSE [status |-> "Ok", color |-> TwoFiftySix(args[2]),
              rest |-> SubSeq(args, 3, Len(args))]
    ELSE [status |-> "Err", color |-> Basic("Black"), rest |-> Tail(args)]

\* PARAM_REGEX = ESC \[ ([0-9;]*) %? m, searched leftmost in s.
\* ParamMatchAt gives the end of the run of [0-9;] when the regex matches at i.
IsParamChar(c) == IsDigit(c) \/ c = ";"

RECURSIVE RunEnd(_, _)
\* first index >= i whose character is not in [0-9;] (Len(s)+1 if none)
RunEnd(s, i) == IF i <= Len(s) /\ IsParamChar(s[i]) THEN RunEnd(s, i + 1) ELSE i

ParamMatchAt(s, i) ==
    /\ i + 2 <= Len(s)
    /\ s[i] = ESC
    /\ s[i + 1] = "["
    /\ LET j == RunEnd(s, i + 2)
       IN  \/ (j <= Len(s) /\ s[j] = "m")
           \/ (j + 1 <= Len(s) /\ s[j] = "%" /\ s[j + 1] = "m")

\* capture group 1 of PARAM_REGEX, or "none"
ParamCapture(s) ==
    IF \E i \in 1..Len(s) : ParamMatchAt(s, i)
    THEN LET i == CHOOSE k \in 1..Len(s) :
                      ParamMatchAt(s, k) /\ \A j \in 1..(k - 1) : ~ParamMatchAt(s, j)
         IN  [matched |-> TRUE, group |-> SubSeq(s, i + 2, RunEnd(s, i + 2) - 1)]
    ELSE [matched |-> FALSE, group |-> <<>>]

\* the parameters that parse as u8 (filter_map drops the others)
RECURSIVE IntParts(_)
IntParts(parts) ==
    IF parts = <<>> THEN <<>>
    ELSE LET v == ParseUnsigned(Head(parts), U8Max)
         IN  (IF v = -1 THEN <<>> ELSE <<v>>) \o IntParts(Tail(parts))

\* One turn of the `while !int_parts.is_empty()` loop of apply_vt100.
SgrStep(s, code, rest) ==
    CASE code = 0 ->
            [status |-> "Ok", rest |-> rest,
             style |-> [s EXCEPT !.foreground = Basic("White"),
                                 !.background = Basic("Black"),
                                 !.blink = FALSE, !.underline = FALSE,
                                 !.bold = FALSE]]
      [] code = 1 -> [status |-> "Ok", rest |-> rest, style |-> [s EXCEPT !.bold = TRUE]]
      [] code = 2 -> [status |-> "Ok", rest |-> rest, style |-> [s EXCEPT !.bold = FALSE]]
      [] code = 3 -> [status |-> "Ok", rest |-> rest, style |-> [s EXCEPT !.italicized = TRUE]]
      [] code = 4 -> [status |-> "Ok", rest |-> rest, style |-> [s EXCEPT !.underline = TRUE]]
      [] code = 5 -> [status |-> "Ok", rest |-> rest, style |-> [s EXCEPT !.blink = TRUE]]
      [] code = 7 -> [status |-> "Ok", rest |-> rest, style |-> [s EXCEPT !.invert = TRUE]]
      [] code = 22 -> [status |-> "Ok", rest |-> rest, style |-> [s EXCEPT !.bold = FALSE]]
      [] code = 23 -> [status |-> "Ok", rest |-> rest, style |-> [s EXCEPT !.italicized = FALSE]]
      [] code = 24 -> [status |-> "Ok", rest |-> rest, style |-> [s EXCEPT !.underline = FALSE]]
      [] code = 25 -> [status |-> "Ok", rest |-> rest, style |-> [s EXCEPT !.blink = FALSE]]
      [] code = 27 -> [status |-> "Ok", rest |-> rest, style |-> [s EXCEPT !.invert = FALSE]]
      [] code \in 30..37 ->
            [status |-> "Ok", rest |-> rest,
             style |-> [s EXCEPT !.foreground = eight_color(code)]]
      [] code = 38 ->
            LET e == extended_color(rest)
            IN  [status |-> e.status, rest |-> e.rest,
                 style |-> IF e.status = "Ok" THEN [s EXCEPT !.foreground = e.color] ELSE s]
      [] code = 39 ->
            [status |-> "Ok", rest |-> rest,
             style |-> [s EXCEPT !.foreground = Basic("White")]]
      [] code \in 40..47 ->
            [status |-> "Ok", rest |-> rest,
             style |-> [s EXCEPT !.background = eight_color(code)]]
      [] code = 48 ->
            LET e == extended_color(rest)
            IN  [status |-> e.status, rest |-> e.rest,
                 style |-> IF e.status = "Ok" THEN [s EXCEPT !.background = e.color] ELSE s]
      [] code = 49 ->
            [status |-> "Ok", rest |-> rest,
             style |-> [s EXCEPT !.foreground = Basic("Black")]]
      [] code \in 90..97 ->
            [status |-> "Ok", rest |-> rest,
             style |-> [s EXCEPT !.foreground = eight_color(code), !.bold = TRUE]]
      [] code \in 100..107 ->
            [status |-> "Ok", rest |-> rest,
             style |-> [s EXCEPT !.background = eight_color(code), !.bold = TRUE]]
      [] OTHER -> [status |-> "Panic", rest |-> rest, style |-> s]

RECURSIVE SgrLoop(_, _)
SgrLoop(s, parts) ==
    IF parts = <<>> THEN [status |-> "Ok", style |-> s]
    ELSE LET r == SgrStep(s, Head(parts), Tail(parts))
         IN  IF r.status = "Ok" THEN SgrLoop(r.style, r.rest)
             ELSE [status |-> r.status, style |-> r.style]

\* PrintStyle::apply_vt100 : the style afterwards and Ok / Err / Panic
apply_vt100(s, code) ==
    LET cap == ParamCapture(code)
    IN  IF ~cap.matched THEN [status |-> "Err", style |-> s]
        ELSE LET parts == IntParts(SplitSemi(cap.group))
             IN  IF parts = <<>> THEN [status |-> "Ok", style |-> reset(s)]
                 ELSE SgrLoop(s, parts)

(***************************************************************************)
(* StreamState: the streaming tokeniser.                                   *)
(***************************************************************************)
\* [\[\x9b>=MD]
IsIntroducer(c) == c \in {"[", CSI8, ">", "=", "M", "D"}
\* [0-?]
IsParameter(c) == CodePoint(c) \in 48..63
\* [ -/]
IsIntermediate(c) == CodePoint(c) \in 32..47
\* [@-~>=]
IsFinal(c) == CodePoint(c) \in 64..126 \/ c \in {">", "="}

\* CSI_BEGINNING.is_match
CSI_BEGINNING(s) ==
    \E i \in 1..(Len(s) - 1) : s[i] = ESC /\ IsIntroducer(s[i + 1])

\* VT100_REGEX.is_match
VT100_REGEX(s) ==
    \E i \in 1..(Len(s) - 2) :
        /\ s[i] = ESC
        /\ IsIntroducer(s[i + 1])
        /\ \E a \in (i + 2)..Len(s) : \E b \in a..Len(s) :
              /\ \A k \in (i + 2)..(a - 1) : IsParameter(s[k])
              /\ \A k \in a..(b - 1) : IsIntermediate(s[k])
              /\ IsFinal(s[b])

\* VT100_SCROLL_REGEX.is_match
VT100_SCROLL_REGEX(s) ==
    \E i \in 1..(Len(s) - 1) : s[i] = ESC /\ s[i + 1] \in {"M", "D"}

is_esc_seq(buffer) == CSI_BEGINNING(buffer)

is_esc_seq_complete(buffer) ==
    is_esc_seq(buffer) /\ (VT100_REGEX(buffer) \/ VT100_SCROLL_REGEX(buffer))

\* n is a character boundary of the UTF-8 encoding of s (str::is_char_boundary)
IsCharBoundary(s, n) == \E k \in 0..Len(s) : ByteLen(SubSeq(s, 1, k)) = n

\* s.get(1..2) : <<>> (None) when the byte range does not fall on character
\* boundaries, otherwise the character it covers
StrGet12(s) ==
    IF IsCharBoundary(s, 1) /\ IsCharBoundary(s, 2)
    THEN LET k == CHOOSE j \in 0..Len(s) : ByteLen(SubSeq(s, 1, j)) = 1
         IN  <<s[k + 1]>>
    ELSE <<>>

\* VT100::from_str : the kind of a complete control sequence, or a panic
from_str(s) ==
    LET last == s[Len(s)]
        ok(kind) == [status |-> "Ok", kind |-> kind]
    IN  CASE last = "M" -> ok("ScrollDown")
          [] last = "D" -> IF s = <<ESC, "D">> THEN ok("ScrollUp") ELSE ok("MoveCursor")
          [] last = "m" -> ok("SGR")
          [] last \in {"H", "f", "A", "B", "C"} ->
                IF StrGet12(s) = <<>> THEN [status |-> "Panic", kind |-> "Unknown"]
                ELSE IF StrGet12(s) = <<"O">> THEN ok("MoveCursorApp")
                ELSE ok("MoveCursor")
          [] last = "J" -> ok("EraseScreen")
          [] last = "K" ->
                IF s = <<ESC, "[", "1", "K">> THEN ok("EraseLineBeforeCursor")
                ELSE IF s = <<ESC, "[", "2", "K">> THEN ok("ClearLine")
                ELSE ok("EraseLineAfterCursor")
          [] last = "L" -> ok("ClearLine")
          [] last \in {"h", "l", "n", "r"} ->
                IF s = <<ESC, "[", "?", "1", "h">> THEN ok("EnterApplicationKeyMode")
                ELSE IF s = <<ESC, "[", "?", "2", "5", "l">> THEN ok("HideCursor")
                ELSE IF s = <<ESC, "[", "?", "2", "5", "h">> THEN ok("ShowCursor")
                ELSE IF s = <<ESC, "[", "6", "n">> THEN ok("GetCursorPos")
                ELSE ok("PassThrough")
          [] OTHER ->
                IF ~IsCharBoundary(s, 2) THEN [status |-> "Panic", kind |-> "Unknown"]
                ELSE IF Len(s) >= 2 /\ SubSeq(s, 1, 2) = <<ESC, "k">> THEN ok("ClearLine")
                ELSE ok("Unknown")

Plaintext(s) == [t |-> "Plaintext", kind |-> "Plaintext", s |-> s]
CSI(kind, s) == [t |-> "CSI", kind |-> kind, s |-> s]

\* StreamState::new
NewStreamState ==
    [buffer |-> <<>>, vetted_output |-> <<>>, build_state |-> "PlainText",
     panic |-> FALSE]

\* consume_buffer that clears an incomplete buffer without emitting it
consume_buffer_dropping(ss) ==
    IF is_esc_seq_complete(ss.buffer)
    THEN LET v == from_str(ss.buffer)
         IN  IF v.status = "Panic" THEN [ss EXCEPT !.panic = TRUE]
             ELSE [ss EXCEPT !.vetted_output = Append(@, CSI(v.kind, ss.buffer)),
                             !.buffer = <<>>]
    ELSE [ss EXCEPT !.buffer = <<>>]

consume_buffer(ss) ==
    IF is_esc_seq_complete(ss.buffer)
    THEN LET v == from_str(ss.buffer)
         IN  IF v.status = "Panic" THEN [ss EXCEPT !.panic = TRUE]
             ELSE [ss EXCEPT !.vetted_output = Append(@, CSI(v.kind, ss.buffer)),
                             !.buffer = <<>>]
    ELSE [ss EXCEPT !.vetted_output = Append(@, Plaintext(ss.buffer)),
                    !.buffer = <<>>]

\* one turn of the `for c in stdin.chars()` loop of StreamState::push
PushChar(ss, c) ==
    IF ss.panic THEN ss
    ELSE IF ss.build_state = "PlainText" THEN
        IF c = ESC
        THEN LET s1 == consume_buffer(ss)
             IN  IF s1.panic THEN s1
                 ELSE [s1 EXCEPT !.buffer = Append(@, c), !.build_state = "FoundEsc"]
        ELSE LET n == Len(ss.vetted_output)
             IN  IF n = 0
                 THEN [ss EXCEPT !.vetted_output = <<Plaintext(<<c>>)>>]
                 ELSE IF ss.vetted_output[n].t = "Plaintext"
                 THEN [ss EXCEPT !.vetted_output[n].s = Append(@, c)]
                 ELSE [ss EXCEPT !.vetted_output = Append(@, Plaintext(<<c>>))]
    ELSE LET buf == Append(ss.buffer, c)
             s1 == [ss EXCEPT !.buffer = buf]
             not_an_esc_seq == ByteLen(buf) = 2 /\ ~is_esc_seq(buf)
         IN  IF not_an_esc_seq \/ is_esc_seq_complete(buf)
             THEN LET s2 == consume_buffer(s1)
                  IN  IF s2.panic THEN s2 ELSE [s2 EXCEPT !.build_state = "PlainText"]
             ELSE s1

RECURSIVE StreamPush(_, _)
\* StreamState::push
StreamPush(ss, stdin) ==
    IF stdin = <<>> THEN ss ELSE StreamPush(PushChar(ss, Head(stdin)), Tail(stdin))

\* the tokens that are not empty, in order
RECURSIVE NonEmpty(_)
NonEmpty(toks) ==
    IF toks = <<>> THEN <<>>
    ELSE (IF Head(toks).s = <<>> THEN <<>> ELSE <<Head(toks)>>) \o NonEmpty(Tail(toks))

\* StreamState::consume : the returned tokens and the state afterwards
consume(ss) ==
    IF ss.panic THEN [out |-> <<>>, ss |-> ss]
    ELSE LET s1 == IF ss.buffer # <<>> /\ ss.buffer[Len(ss.buffer)] = ESC
                   THEN [consume_buffer(ss) EXCEPT !.build_state = "PlainText"]
                   ELSE ss
         IN  IF s1.panic THEN [out |-> <<>>, ss |-> s1]
             ELSE [out |-> NonEmpty(s1.vetted_output),
                   ss |-> [s1 EXCEPT !.vetted_output = <<>>]]

\* concatenation of the raw text of a sequence of tokens (TerminalOutput::to_string)
RECURSIVE as_raw_string(_)
as_raw_string(toks) ==
    IF toks = <<>> THEN <<>> ELSE Head(toks).s \o as_raw_string(Tail(toks))

(***************************************************************************)
(* GlyphString.                                                            *)
(***************************************************************************)
Glyph(c, style) == [c |-> c, style |-> style, dirty |-> TRUE]

NewGlyphString == [glyphs |-> <<>>, dirty |-> TRUE]

last_style(line) ==
    IF line.glyphs = <<>> THEN DefaultStyle ELSE line.glyphs[Len(line.glyphs)].style

first_style(line) ==
    IF line.glyphs = <<>> THEN DefaultStyle ELSE line.glyphs[1].style

\* GlyphString::dirty
dirty(line) == line.dirty \/ \E i \in 1..Len(line.glyphs) : line.glyphs[i].dirty

\* the padding takes the default style, whatever the line ends in
set_plain_padding(line, index, c, style) ==
    LET len == Len(line.glyphs)
        extra_chars_reqd == IF index - (len - 1) > 0 THEN index - (len - 1) ELSE 0
        padded == line.glyphs \o [k \in 1..extra_chars_reqd |-> Glyph(" ", DefaultStyle)]
    IN  [glyphs |-> [padded EXCEPT ![index + 1] = Glyph(c, style)], dirty |-> TRUE]

\* GlyphString::set (index is 0-based)
set(line, index, c, style) ==
    LET len == Len(line.glyphs)
        extra_chars_reqd == IF index - (len - 1) > 0 THEN index - (len - 1) ELSE 0
        default_style == last_style(line)
        padded == line.glyphs \o [k \in 1..extra_chars_reqd |-> Glyph(" ", default_style)]
    IN  [glyphs |-> [padded EXCEPT ![index + 1] = Glyph(c, style)], dirty |-> TRUE]

RECURSIVE push(_, _, _)
\* GlyphString::push
push(line, s, style) ==
    IF s = <<>> THEN line
    ELSE push(set(line, Len(line.glyphs), Head(s), style), Tail(s), style)

RECURSIVE ClearRange(_, _, _)
\* set(i, ' ', default) for i in from..to-1
ClearRange(line, from, to) ==
    IF from >= to THEN line
    ELSE ClearRange(set(line, from, " ", DefaultStyle), from + 1, to)

clear_to(line, idx) == ClearRange(line, 0, idx)

clear_after(line, idx) == ClearRange(line, idx, Len(line.glyphs))

clear(line) == [glyphs |-> <<>>, dirty |-> TRUE]

plaintext(line) == [i \in 1..Len(line.glyphs) |-> line.glyphs[i].c]

Min(a, b) == IF a < b THEN a ELSE b
Max(a, b) == IF a > b THEN a ELSE b

\* the loop of str_with_width over glyphs i..n : the text produced
RECURSIVE StrLoop(_, _, _, _)
StrLoop(glyphs, i, n, cur_style) ==
    IF i > n THEN <<>>
    ELSE LET diff == diff_str(cur_style, glyphs[i].style)
         IN  IF Len(diff) > 0
             THEN diff \o <<glyphs[i].c>> \o StrLoop(glyphs, i + 1, n, glyphs[i].style)
             ELSE <<glyphs[i].c>> \o StrLoop(glyphs, i + 1, n, cur_style)

\* GlyphString::str_with_width : the text and the line with the emitted glyphs clean
str_with_width(line, width) ==
    LET n == Min(width, Len(line.glyphs))
    IN  [text |-> StrLoop(line.glyphs, 1, n, first_style(line)),
         line |-> [line EXCEPT !.glyphs =
                      [i \in 1..Len(line.glyphs) |->
                          IF i <= n THEN [line.glyphs[i] EXCEPT !.dirty = FALSE]
                          ELSE line.glyphs[i]]]]

Spaces(n) == [k \in 1..n |-> " "]

\* GlyphString::write : the characters written and the line afterwards.
\* format!("{0: <1$}", output, pad_width) pads to pad_width characters, and
\* pad_width is computed from output.len(), which counts bytes.
write(line, x_offset, y_offset, width, style) ==
    LET line_style == diff_str(style, first_style(line))
        reset_style == diff_str(last_style(line), style)
        set_cursor == <<ESC, "[">> \o FmtNum(y_offset) \o <<";">> \o FmtNum(x_offset) \o <<"H">>
        sw == str_with_width(line, width)
        output == set_cursor \o line_style \o sw.text \o reset_style
        len == Len(line.glyphs)
        pad_width == IF len < width THEN ByteLen(output) + (width - len) ELSE width
    IN  [bytes |-> output \o Spaces(Max(0, pad_width - Len(output))),
         line |-> [sw.line EXCEPT !.dirty = FALSE]]

(***************************************************************************)
(* Cursor and ViewPort.  The pane is one record; `panic` records that the  *)
(* thread has panicked (nothing runs afterwards), `build` whether integer  *)
(* overflow panics (debug) or wraps (release), and `logging` whether the   *)
(* Info level is enabled, in which case the arguments of info! are         *)
(* evaluated.                                                              *)
(***************************************************************************)
Panic(p) == [p EXCEPT !.panic = TRUE]

\* u16 arithmetic: the result out of range panics in a debug build and wraps
\* in a release build
Overflows(v) == v < 0 \/ v > U16Max
Wrap(v) == v % U16Mod

\* set_x without the clamp to x_max
set_x_unclamped(p, n) == [p EXCEPT !.cursor.x = Max(0, n)]

set_x(p, n) == [p EXCEPT !.cursor.x = Min(Max(0, n), p.cursor.x_max)]

set_y(p, n) == [p EXCEPT !.cursor.y = Min(Max(0, n), p.cursor.y_max)]

incr_x(p, offset) ==
    IF Overflows(p.cursor.x + offset) /\ p.build = "debug" THEN Panic(p)
    ELSE set_x(p, Wrap(p.cursor.x + offset))

incr_y(p, offset) ==
    IF Overflows(p.cursor.y + offset) /\ p.build = "debug" THEN Panic(p)
    ELSE set_y(p, Wrap(p.cursor.y + offset))

decr_x(p, offset) ==
    IF p.cursor.x > 0
    THEN IF Overflows(p.cursor.x - offset) /\ p.build = "debug" THEN Panic(p)
         ELSE set_x(p, Wrap(p.cursor.x - offset))
    ELSE p

decr_y(p, offset) == set_y(p, p.cursor.y - Min(offset, p.cursor.y))

\* ViewPort::new, Pane::new and set_scroll_mode
NewPane(x, y, height, width, mode, build, logging) ==
    [x |-> x, y |-> y, width |-> width, height |-> height, scroll_mode |-> mode,
     visible_lines |-> <<>>, cur_style |-> DefaultStyle,
     cursor |-> [x |-> 0, y |-> 0, x_max |-> width, y_max |-> height],
     stream_state |-> NewStreamState, stdout |-> <<>>,
     panic |-> FALSE, result |-> "Ok", build |-> build, logging |-> logging]

\* Vec::remove(0), n times; panics when the vector runs out
RemoveFront(p, n) ==
    IF n <= 0 THEN p
    ELSE IF n > Len(p.visible_lines)
    THEN Panic([p EXCEPT !.visible_lines = <<>>])
    ELSE [p EXCEPT !.visible_lines = SubSeq(@, n + 1, Len(@))]

\* one line more than the index asks for
mut_line_beyond(p, index) ==
    IF Len(p.visible_lines) <= index
    THEN [p EXCEPT !.visible_lines =
             @ \o [k \in 1..(index + 2 - Len(@)) |-> NewGlyphString]]
    ELSE p

\* ViewPort::mut_line : the lines are extended up to the index
mut_line(p, index) ==
    IF Len(p.visible_lines) <= index
    THEN [p EXCEPT !.visible_lines =
             @ \o [k \in 1..(index + 1 - Len(@)) |-> NewGlyphString]]
    ELSE p

\* ViewPort::cur_line : the pane afterwards; the line is visible_lines[cursor.y]
cur_line(p) ==
    IF p.panic THEN p
    ELSE IF p.cursor.y >= p.height
    THEN LET p1 == RemoveFront(p, p.cursor.y - p.height)
         IN  IF p1.panic THEN p1
             ELSE IF Overflows(p.height - 1) /\ p.build = "debug" THEN Panic(p1)
             ELSE LET p2 == set_y(p1, Wrap(p.height - 1))
                  IN  mut_line(p2, p2.cursor.y)
    ELSE mut_line(p, p.cursor.y)

\* apply f to the current line (a `line.xxx()` call on cur_line())
SetCurLine(p, line) == [p EXCEPT !.visible_lines[p.cursor.y + 1] = line]
CurLine(p) == p.visible_lines[p.cursor.y + 1]

\* ViewPort::newline
newline(p) ==
    LET p1 == IF p.cursor.y = p.height /\ p.scroll_mode = "Scroll"
              THEN IF p.visible_lines = <<>> THEN Panic(p)
                   ELSE [p EXCEPT !.visible_lines = Append(Tail(@), NewGlyphString)]
              ELSE p
    IN  IF p1.panic THEN p1 ELSE incr_y(set_x(p1, 0), 1)

\* ViewPort::cursor_goto : the casts to u16 truncate
cursor_goto(p, row, col) == set_y(set_x(p, Wrap(col - 1)), Wrap(row - 1))

cursor_up(p, amount) == decr_y(p, amount)

\* ViewPort::cursor_down
cursor_down(p, amount) ==
    IF Overflows(p.cursor.x + amount) /\ p.build = "debug" THEN Panic(p)
    ELSE LET final_row == Wrap(p.cursor.x + amount)
             p1 == incr_y(p, amount)
         IN  IF p1.panic THEN p1
             ELSE IF final_row >= p.height
             THEN RemoveFront(p1, final_row - p.height)
             ELSE p1

cursor_left(p, amount) == decr_x(p, amount)

\* cursor_right that leaves the cursor where it is
cursor_right_stuck(p, amount) == p

cursor_right(p, amount) == incr_x(p, amount)

cursor_home(p) == set_x(p, 0)

ClearAll(lines) == [i \in 1..Len(lines) |-> clear(lines[i])]

\* ViewPort::clear
ViewPortClear(p, deletion_type) ==
    LET y_idx == p.cursor.y
        x_idx == p.cursor.x
        OnCurLine(f(_)) == LET p1 == cur_line(p)
                           IN  IF p1.panic THEN p1 ELSE SetCurLine(p1, f(CurLine(p1)))
        ClrLine(l) == clear(l)
        ClrTo(l) == clear_to(l, x_idx)
        ClrAfter(l) == clear_after(l, x_idx)
    IN  CASE deletion_type = "ClearLine" -> OnCurLine(ClrLine)
          [] deletion_type = "ClearLineToCursor" -> OnCurLine(ClrTo)
          [] deletion_type = "ClearLineAfterCursor" -> OnCurLine(ClrAfter)
          [] deletion_type = "ClearScreen" ->
                cursor_goto([p EXCEPT !.visible_lines = ClearAll(@)], 1, 1)
          [] deletion_type = "ClearScreenToCursor" ->
                IF y_idx > Len(p.visible_lines) THEN Panic(p)
                ELSE LET p0 == [p EXCEPT !.visible_lines =
                                   [i \in 1..Len(@) |-> IF i <= y_idx THEN clear(@[i]) ELSE @[i]]]
                         p1 == cur_line(p0)
                     IN  IF p1.panic THEN p1 ELSE SetCurLine(p1, clear_to(CurLine(p1), x_idx))
          [] deletion_type = "ClearScreenAfterCursor" ->
                LET p0 == [p EXCEPT !.visible_lines =
                              [i \in 1..Len(@) |-> IF i > y_idx + 1 THEN clear(@[i]) ELSE @[i]]]
                    p1 == cur_line(p0)
                IN  IF p1.panic THEN p1 ELSE SetCurLine(p1, clear_after(CurLine(p1), x_idx))
          [] OTHER -> p

\* take_visible_lines that truncates from the back in both modes
take_visible_lines_truncating(p) ==
    IF Len(p.visible_lines) > p.height
    THEN [p EXCEPT !.visible_lines = SubSeq(@, 1, p.height)]
    ELSE p

\* ViewPort::take_visible_lines
take_visible_lines(p) ==
    IF Len(p.visible_lines) > p.height
    THEN IF p.scroll_mode = "Scroll"
         THEN [p EXCEPT !.visible_lines = SubSeq(@, Len(@) - p.height + 1, Len(@))]
         ELSE [p EXCEPT !.visible_lines = SubSeq(@, 1, p.height)]
    ELSE p

(***************************************************************************)
(* Pane.                                                                   *)
(***************************************************************************)
RECURSIVE DigitRunEnd(_, _)
\* first index >= i whose character is not a digit (Len(s)+1 if none)
DigitRunEnd(s, i) == IF i <= Len(s) /\ IsDigit(s[i]) THEN DigitRunEnd(s, i + 1) ELSE i

\* `.` matches any character but the line feed
IsDot(s, j) == j <= Len(s) /\ s[j] # LF

\* CUR_MOVE_REGEX = ESC \[ (\d*) .  matched at i: the capture, greedy with
\* backtracking
CurMoveAt(s, i) ==
    IF ~(i + 1 <= Len(s) /\ s[i] = ESC /\ s[i + 1] = "[")
    THEN [matched |-> FALSE, g1 |-> <<>>]
    ELSE LET j == DigitRunEnd(s, i + 2)
         IN  IF IsDot(s, j) THEN [matched |-> TRUE, g1 |-> SubSeq(s, i + 2, j - 1)]
             ELSE IF j - 1 >= i + 2 THEN [matched |-> TRUE, g1 |-> SubSeq(s, i + 2, j - 2)]
             ELSE [matched |-> FALSE, g1 |-> <<>>]

\* CUR_MOVE_REGEX.captures : the leftmost match
CUR_MOVE_REGEX(s) ==
    IF \E i \in 1..Len(s) : CurMoveAt(s, i).matched
    THEN CurMoveAt(s, CHOOSE k \in 1..Len(s) :
                         CurMoveAt(s, k).matched /\ \A j \in 1..(k - 1) : ~CurMoveAt(s, j).matched)
    ELSE [matched |-> FALSE, g1 |-> <<>>]

\* HOME_REGEX = ESC \[ (\d*) ;? (\d*) .  matched at i
HomeAt(s, i) ==
    IF ~(i + 1 <= Len(s) /\ s[i] = ESC /\ s[i + 1] = "[")
    THEN [matched |-> FALSE, g1 |-> <<>>, g2 |-> <<>>]
    ELSE LET j1 == DigitRunEnd(s, i + 2)
             run1 == SubSeq(s, i + 2, j1 - 1)
         IN  IF j1 <= Len(s) /\ s[j1] = ";"
             THEN LET j2 == DigitRunEnd(s, j1 + 1)
                  IN  IF IsDot(s, j2)
                      THEN [matched |-> TRUE, g1 |-> run1, g2 |-> SubSeq(s, j1 + 1, j2 - 1)]
                      ELSE IF j2 - 1 >= j1 + 1
                      THEN [matched |-> TRUE, g1 |-> run1, g2 |-> SubSeq(s, j1 + 1, j2 - 2)]
                      ELSE [matched |-> TRUE, g1 |-> run1, g2 |-> <<>>]
             ELSE IF IsDot(s, j1) THEN [matched |-> TRUE, g1 |-> run1, g2 |-> <<>>]
             ELSE IF j1 - 1 >= i + 2
             THEN [matched |-> TRUE, g1 |-> SubSeq(s, i + 2, j1 - 2), g2 |-> <<>>]
             ELSE [matched |-> FALSE, g1 |-> <<>>, g2 |-> <<>>]

\* HOME_REGEX.captures : the leftmost match
HOME_REGEX(s) ==
    IF \E i \in 1..Len(s) : HomeAt(s, i).matched
    THEN HomeAt(s, CHOOSE k \in 1..Len(s) :
                      HomeAt(s, k).matched /\ \A j \in 1..(k - 1) : ~HomeAt(s, j).matched)
    ELSE [matched |-> FALSE, g1 |-> <<>>, g2 |-> <<>>]

\* parse().unwrap_or(1)
ParseOr1(s, max) == IF ParseUnsigned(s, max) = -1 THEN 1 ELSE ParseUnsigned(s, max)

\* Pane::cursor_move_amount : -1 stands for the panic of captures().unwrap()
cursor_move_amount(vt100_code) ==
    LET cap == CUR_MOVE_REGEX(vt100_code)
    IN  IF ~cap.matched THEN -1 ELSE ParseOr1(cap.g1, U16Max)

\* Pane::deletion_type : -2 is None, -1 a panic (no match, or parse().unwrap())
deletion_type(vt100_code) ==
    LET cap == CUR_MOVE_REGEX(vt100_code)
    IN  IF ~cap.matched THEN -1
        ELSE IF cap.g1 = <<>> THEN -2
        ELSE ParseUnsigned(cap.g1, U16Max)

\* the `let deletion_type = match last_char` of Pane::delete_text; "Panic" stands
\* for the panic of an unwrap or of the slice [0..2]
DeletionTypeOf(vt100_code, last_char, n) ==
    CASE last_char = "L" -> "ClearLineToCursor"
      [] last_char = "K" ->
            CASE n = -1 -> "Panic"
              [] n = -2 -> "ClearLineAfterCursor"
              [] n = 1 -> "ClearLineToCursor"
              [] n = 2 -> "ClearLine"
              [] OTHER -> "Unknown"
      [] last_char = "J" ->
            CASE n = -1 -> "Panic"
              [] n = -2 -> "ClearScreenAfterCursor"
              [] n = 1 -> "ClearScreenToCursor"
              [] n = 2 -> "ClearScreen"
              [] OTHER -> "Unknown"
      [] OTHER ->
            IF ~IsCharBoundary(vt100_code, 2) THEN "Panic"
            ELSE IF SubSeq(vt100_code, 1, 2) = <<ESC, "k">> THEN "ClearLineAfterCursor"
            ELSE "Unknown"

\* self.view_port.clear(deletion_type)
ClearWith(p, kind) == IF kind = "Panic" THEN Panic(p) ELSE ViewPortClear(p, kind)

\* Pane::delete_text
delete_text(p, vt100_code) ==
    ClearWith(p, DeletionTypeOf(vt100_code, vt100_code[Len(vt100_code)],
                                deletion_type(vt100_code)))

\* Pane::move_cursor
move_cursor(p, vt100_code) ==
    LET last_char == vt100_code[Len(vt100_code)]
        amount == cursor_move_amount(vt100_code)
    IN  CASE last_char \in {"H", "f"} ->
                LET cap == HOME_REGEX(vt100_code)
                IN  IF ~cap.matched THEN Panic(p)
                    ELSE cursor_goto(p, ParseOr1(cap.g1, I32Max), ParseOr1(cap.g2, I32Max))
          [] last_char = "A" -> IF amount = -1 THEN Panic(p) ELSE cursor_up(p, amount)
          [] last_char = "B" -> IF amount = -1 THEN Panic(p) ELSE cursor_down(p, amount)
          [] last_char = "C" -> IF amount = -1 THEN Panic(p) ELSE cursor_right(p, amount)
          [] last_char = "D" -> IF amount = -1 THEN Panic(p) ELSE cursor_left(p, amount)
          [] OTHER -> p

\* the print! macro: the characters go to the host's standard output
StdoutWrite(p, s) == [p EXCEPT !.stdout = @ \o s]

\* one character of a Plaintext token
PushPlainChar(p, c) ==
    CASE c = BS -> cursor_left(p, 1)
      [] c = LF -> newline(p)
      [] c = TAB ->
            LET p1 == cur_line(p)
            IN  IF p1.panic THEN p1
                ELSE cursor_right(
                        SetCurLine(p1, push(CurLine(p1), Spaces(4), last_style(CurLine(p1)))),
                        4)
      [] c = CR -> cursor_home(p)
      [] c = DEL -> p
      [] OTHER ->
            IF (CodePoint(c) % 256) \in 32..255
            THEN LET index == p.cursor.x
                     style == p.cur_style
                     p1 == cur_line(p)
                 IN  IF p1.panic THEN p1
                     ELSE cursor_right(SetCurLine(p1, set(CurLine(p1), index, c, style)), 1)
            ELSE StdoutWrite(p, <<c>>)

RECURSIVE PushPlain(_, _)
PushPlain(p, plain) ==
    IF plain = <<>> \/ p.panic THEN p
    ELSE PushPlain(PushPlainChar(p, Head(plain)), Tail(plain))

\* ViewPort::apply_style
apply_style(p, vt100) ==
    LET r == apply_vt100(p.cur_style, vt100)
    IN  IF r.status = "Panic" THEN Panic([p EXCEPT !.cur_style = r.style])
        ELSE [p EXCEPT !.cur_style = r.style, !.result = r.status]

\* the PassThrough arm of Pane::push
PassThroughCode(p, code) ==
    IF code \in {<<ESC, "[", "?", "2", "0", "0", "4", "h">>,
                 <<ESC, "[", "?", "2", "0", "0", "4", "l">>,
                 <<ESC, "[", "?", "3", "4", "h">>}
    THEN StdoutWrite(p, code)
    ELSE IF code \in {<<ESC, "[", "?", "1", "0", "4", "9", "h">>,
                      <<ESC, "[", "?", "1", "0", "4", "9", "l">>}
    THEN delete_text(p, <<ESC, "[", "2", "J">>)
    ELSE p

\* one token of the loop of Pane::push
Dispatch(p, tok) ==
    IF tok.t = "Plaintext" THEN PushPlain(p, tok.s)
    ELSE CASE tok.kind = "SGR" -> apply_style(p, tok.s)
           [] tok.kind = "ScrollDown" -> cursor_up(p, 1)
           [] tok.kind = "ScrollUp" -> cursor_down(p, 1)
           [] tok.kind \in {"MoveCursor", "MoveCursorApp"} -> move_cursor(p, tok.s)
           [] tok.kind \in {"ClearLine", "EraseLineBeforeCursor",
                            "EraseLineAfterCursor", "EraseScreen"} -> delete_text(p, tok.s)
           [] tok.kind \in {"HideCursor", "ShowCursor", "GetCursorPos",
                            "EnterApplicationKeyMode", "ExitAltKeypadMode"} -> StdoutWrite(p, tok.s)
           [] tok.kind = "PassThrough" -> PassThroughCode(p, tok.s)
           [] tok.kind = "Unknown" -> StdoutWrite(p, tok.s)
           [] OTHER -> p

RECURSIVE DispatchAll(_, _)
\* the `for out in self.stream_state.consume()` loop; `?` leaves it on an error
DispatchAll(p, toks) ==
    IF toks = <<>> \/ p.panic \/ p.result = "Err" THEN p
    ELSE DispatchAll(Dispatch(p, Head(toks)), Tail(toks))

\* the end of Pane::push: the arguments of info! are evaluated when the Info
\* level is enabled, and cur_line() is one of them
PushEnd(p) ==
    IF p.panic \/ p.result = "Err" \/ ~p.logging THEN p ELSE cur_line(p)

\* the tokens that consume() returned are dispatched in order
PushTokens(p, c) ==
    PushEnd(DispatchAll([p EXCEPT !.stream_state = c.ss, !.result = "Ok",
                                  !.panic = c.ss.panic],
                        c.out))

\* Pane::push
PanePush(p, s) ==
    IF p.panic THEN p
    ELSE PushTokens(p, consume(StreamPush(p.stream_state, s)))

RECURSIVE WriteLines(_, _, _)
\* the for_each of Pane::write over the lines from index i (0-based line_idx):
\* the lines afterwards and the bytes collected in chunks
WriteLines(p, i, ps) ==
    IF i > Len(p.visible_lines) \/ p.panic THEN [p |-> p, chunks |-> <<>>]
    ELSE IF dirty(p.visible_lines[i])
    THEN IF Overflows(p.y + (i - 1)) /\ p.build = "debug"
         THEN [p |-> Panic(p), chunks |-> <<>>]
         ELSE LET w == write(p.visible_lines[i], p.x, Wrap(p.y + (i - 1)), p.width, ps)
                  r == WriteLines([p EXCEPT !.visible_lines[i] = w.line], i + 1, ps)
              IN  [p |-> r.p, chunks |-> w.bytes \o r.chunks]
    ELSE WriteLines(p, i + 1, ps)

\* Pane::write to a writer that accepts everything: the pane afterwards and
\* the characters written to the target
PaneWrite(p) ==
    IF p.panic THEN [p |-> p, bytes |-> <<>>]
    ELSE LET r == WriteLines(take_visible_lines(p), 1, p.cur_style)
         IN  [p |-> r.p, bytes |-> IF r.p.panic THEN <<>> ELSE r.chunks]

\* Pane::take_cursor : the characters written
take_cursor(p) ==
    <<ESC, "[">> \o FmtNum((p.cursor.y + 1) + p.y - 1) \o <<";">>
    \o FmtNum((p.cursor.x + 1) + p.x - 1) \o <<"H">>

(***************************************************************************)
(* The pane as a state machine: any sequence of push and write calls.      *)
(***************************************************************************)
ScrollModes == {"Scroll", "Fixed"}
Builds == {"debug", "release"}

FreshPanes ==
    {NewPane(PaneX, PaneY, PaneHeight, PaneWidth, m, b, l) :
        m \in ScrollModes, b \in Builds, l \in BOOLEAN}

IdleFeed == [input |-> <<>>, pos |-> 0]
IdleParser == [ss |-> NewStreamState, pushed |-> <<>>, tokens |-> <<>>, last |-> "new"]
IdleStyle == [a |-> DefaultStyle, b |-> DefaultStyle,
              res |-> [status |-> "Ok", style |-> DefaultStyle], op |-> "none"]

\* nothing recorded yet about the lines a take_visible_lines started from
IdleHist == [taken |-> FALSE, lines |-> <<>>]

\* no pane manager: no pane is registered
NoPanes == <<>>

\* no MasterControl and no ProcessOrchestrator take part
NoControl == <<>>

\* the strings handed to Pane::push
PushMenu ==
    {<<"A">>, <<EACUTE>>, <<LF>>, <<CR>>, <<BS>>, <<TAB>>,
     Sgr(<<"3", "3">>), Sgr(<<"8">>), Sgr(<<"3", "8">>),
     <<ESC, "[", "9", "9", ";", "9", "9", "H">>,
     <<ESC, "[", "1", "J">>, <<ESC, "[", "K">>,
     <<ESC, ">", "H">>, <<ESC, "D">>, <<ESC, "[", "A">>, <<ESC, "[", "2", "D">>,
     <<ESC, "[", "6", "5", "5", "3", "5", "C">>}

Init ==
    /\ pane \in FreshPanes
    /\ out = <<>>
    /\ renders = 0
    /\ steps = 0
    /\ feed = IdleFeed
    /\ par = IdleParser
    /\ sty = IdleStyle
    /\ hist = IdleHist
    /\ panes = NoPanes
    /\ ctl = NoControl

\* pane.push(s)
Push(s) ==
    /\ steps < MaxSteps
    /\ ~pane.panic
    /\ pane' = PanePush(pane, s)
    /\ out' = <<>>
    /\ renders' = 0
    /\ steps' = steps + 1
    /\ UNCHANGED <<feed, par, sty, hist, panes, ctl>>

\* pane.write(target) with a target that accepts every byte
Render ==
    /\ steps < MaxSteps
    /\ ~pane.panic
    /\ renders < 2
    /\ LET r == PaneWrite(pane)
       IN  /\ pane' = r.p
           /\ out' = r.bytes
    /\ renders' = renders + 1
    /\ steps' = steps + 1
    /\ UNCHANGED <<feed, par, sty, hist, panes, ctl>>

Next ==
    \/ \E s \in PushMenu : Push(s)
    \/ Render

Spec == Init /\ [][Next]_vars

(***************************************************************************)
(* One input handed to a pane in consecutive chunks.                       *)
(***************************************************************************)
Scenarios ==
    {Sgr(<<"3", "3">>) \o <<"A">>,
     <<"A", "A", LF, "B", "B", LF, "C", "C">>,
     <<"A", LF, "B", LF, "C", LF, "D">>,
     <<LF, LF, LF, "A">>,
     <<ESC, "[", "2", ";", "2", "H", "A">>,
     <<"A", "B", CR, "C", TAB>>}

InitFeed ==
    /\ pane \in FreshPanes
    /\ out = <<>>
    /\ renders = 0
    /\ steps = 0
    /\ feed \in {[input |-> i, pos |-> 0] : i \in Scenarios}
    /\ par = IdleParser
    /\ sty = IdleStyle
    /\ hist = IdleHist
    /\ panes = NoPanes
    /\ ctl = NoControl

\* pane.push of the next k characters of the input
FeedChunk(k) ==
    /\ feed.pos + k <= Len(feed.input)
    /\ ~pane.panic
    /\ pane' = PanePush(pane, SubSeq(feed.input, feed.pos + 1, feed.pos + k))
    /\ feed' = [feed EXCEPT !.pos = @ + k]
    /\ UNCHANGED <<out, renders, steps, par, sty, hist, panes, ctl>>

NextFeed == \E k \in 1..Len(feed.input) : FeedChunk(k)

SpecFeed == InitFeed /\ [][NextFeed]_vars

(***************************************************************************)
(* The tokeniser on its own: any sequence of push and consume calls.       *)
(***************************************************************************)
ParserChars == {ESC, "[", "3", "m", "D", "A"}

InitParser ==
    /\ pane = NewPane(PaneX, PaneY, PaneHeight, PaneWidth, "Fixed", "debug", FALSE)
    /\ out = <<>>
    /\ renders = 0
    /\ steps = 0
    /\ feed = IdleFeed
    /\ par = IdleParser
    /\ sty = IdleStyle
    /\ hist = IdleHist
    /\ panes = NoPanes
    /\ ctl = NoControl

\* stream_state.push(c)
ParserPush(c) ==
    /\ Len(par.pushed) < MaxParserInput
    /\ ~par.ss.panic
    /\ par' = [par EXCEPT !.ss = StreamPush(@, <<c>>),
                          !.pushed = Append(@, c),
                          !.last = "push"]
    /\ UNCHANGED <<pane, out, renders, steps, feed, sty, hist, panes, ctl>>

\* stream_state.consume()
ParserConsume ==
    /\ ~par.ss.panic
    /\ LET c == consume(par.ss)
       IN  par' = [par EXCEPT !.ss = c.ss, !.tokens = @ \o c.out, !.last = "consume"]
    /\ UNCHANGED <<pane, out, renders, steps, feed, sty, hist, panes, ctl>>

NextParser ==
    \/ \E c \in ParserChars : ParserPush(c)
    \/ ParserConsume

SpecParser == InitParser /\ [][NextParser]_vars

(***************************************************************************)
(* PrintStyle on its own: two styles built by apply_vt100, then diff_str   *)
(* and to_str replayed.                                                    *)
(***************************************************************************)
SgrMenu ==
    {Sgr(<<"1">>), Sgr(<<"7">>), Sgr(<<"4">>), Sgr(<<"3", "3">>), Sgr(<<"4", "6">>),
     Sgr(<<"4", "8", ";", "5", ";", "9">>), Sgr(<<"3", "8", ";", "2", ";", "1", ";", "2", ";", "3">>),
     Sgr(<<"0">>)}

RECURSIVE ApplyTokens(_, _)
ApplyTokens(r, toks) ==
    IF toks = <<>> \/ r.status # "Ok" THEN r
    ELSE IF Head(toks).kind = "SGR"
    THEN ApplyTokens(apply_vt100(r.style, Head(toks).s), Tail(toks))
    ELSE ApplyTokens(r, Tail(toks))

\* the bytes are tokenised and every SGR sequence among them is applied
ApplyBytes(style, bytes) ==
    ApplyTokens([status |-> "Ok", style |-> style],
                consume(StreamPush(NewStreamState, bytes)).out)

InitStyle ==
    /\ pane = NewPane(PaneX, PaneY, PaneHeight, PaneWidth, "Fixed", "debug", FALSE)
    /\ out = <<>>
    /\ renders = 0
    /\ steps = 0
    /\ feed = IdleFeed
    /\ par = IdleParser
    /\ sty = IdleStyle
    /\ hist = IdleHist
    /\ panes = NoPanes
    /\ ctl = NoControl

\* a.apply_vt100(code)
StyleApplyA(code) ==
    /\ LET r == apply_vt100(sty.a, code)
       IN  /\ r.status = "Ok"
           /\ sty' = [sty EXCEPT !.a = r.style, !.op = "none",
                                 !.res = [status |-> "Ok", style |-> DefaultStyle]]
    /\ UNCHANGED <<pane, out, renders, steps, feed, par, hist, panes, ctl>>

\* b.apply_vt100(code)
StyleApplyB(code) ==
    /\ LET r == apply_vt100(sty.b, code)
       IN  /\ r.status = "Ok"
           /\ sty' = [sty EXCEPT !.b = r.style, !.op = "none",
                                 !.res = [status |-> "Ok", style |-> DefaultStyle]]
    /\ UNCHANGED <<pane, out, renders, steps, feed, par, hist, panes, ctl>>

\* a style equal to a is updated with the bytes of a.diff_str(b)
StyleDiff ==
    /\ sty.op = "none"
    /\ sty' = [sty EXCEPT !.res = ApplyBytes(sty.a, diff_str(sty.a, sty.b)), !.op = "diff"]
    /\ UNCHANGED <<pane, out, renders, steps, feed, par, hist, panes, ctl>>

\* a default style is updated with the bytes of a.to_str()
StyleReplay ==
    /\ sty.op = "none"
    /\ sty' = [sty EXCEPT !.res = ApplyBytes(DefaultStyle, to_str(sty.a)), !.op = "replay"]
    /\ UNCHANGED <<pane, out, renders, steps, feed, par, hist, panes, ctl>>

NextStyle ==
    \/ \E code \in SgrMenu : StyleApplyA(code)
    \/ \E code \in SgrMenu : StyleApplyB(code)
    \/ StyleDiff
    \/ StyleReplay

SpecStyle == InitStyle /\ [][NextStyle]_vars

(***************************************************************************)
(* Rendering to a writer that may report a failure.                        *)
(***************************************************************************)
\* the strings pushed between renders
WriterMenu == {<<"A">>, <<LF>>, <<TAB>>, Sgr(<<"3", "3">>)}

\* the end of Pane::write: the target is called once, after all lines were
\* written into `chunks`, and only when chunks is not empty
WriteResult(r, ok) ==
    IF r.p.panic THEN r
    ELSE IF r.bytes = <<>> \/ ok
    THEN [p |-> [r.p EXCEPT !.result = "Ok"], bytes |-> r.bytes]
    ELSE [p |-> [r.p EXCEPT !.result = "WriteErr"], bytes |-> <<>>]

\* Pane::write to a target that accepts the bytes (ok) or reports a failure
WriteTo(p, ok) == WriteResult(PaneWrite(p), ok)

\* pane.write(target)
RenderTo(ok) ==
    /\ steps < MaxSteps
    /\ ~pane.panic
    /\ LET r == WriteTo(pane, ok)
       IN  /\ pane' = r.p
           /\ out' = r.bytes
    /\ renders' = renders + 1
    /\ steps' = steps + 1
    /\ UNCHANGED <<feed, par, sty, hist, panes, ctl>>

NextWriter ==
    \/ \E s \in WriterMenu : Push(s)
    \/ \E ok \in BOOLEAN : RenderTo(ok)

SpecWriter == Init /\ [][NextWriter]_vars

(***************************************************************************)
(* Printable text handed to a fresh pane in consecutive chunks.            *)
(***************************************************************************)
TextChars == {"A", " ", "[", "m"}

\* the strings over TextChars of length 1..n
RECURSIVE TextStrings(_)
TextStrings(n) ==
    IF n = 0 THEN {}
    ELSE IF n = 1 THEN {<<c>> : c \in TextChars}
    ELSE TextStrings(n - 1)
         \cup {Append(s, c) : s \in {t \in TextStrings(n - 1) : Len(t) = n - 1},
                              c \in TextChars}

TextPanes ==
    {NewPane(PaneX, PaneY, h, PaneWidth, m, b, l) :
        h \in 1..PaneHeight, m \in ScrollModes, b \in Builds, l \in BOOLEAN}

InitText ==
    /\ pane \in TextPanes
    /\ out = <<>>
    /\ renders = 0
    /\ steps = 0
    /\ feed \in {[input |-> i, pos |-> 0] : i \in TextStrings(PaneWidth + 1)}
    /\ par = IdleParser
    /\ sty = IdleStyle
    /\ hist = IdleHist
    /\ panes = NoPanes
    /\ ctl = NoControl

SpecText == InitText /\ [][NextFeed]_vars

(***************************************************************************)
(* Coloured text handed to a fresh pane in consecutive chunks.             *)
(***************************************************************************)
ColourScenarios ==
    {Sgr(<<"3", "3">>) \o <<"A">>,
     Sgr(<<"3", "3">>) \o <<"A">> \o Sgr(<<"4", "6">>) \o <<"B">>,
     Sgr(<<"3", "3">>) \o <<"A">> \o Sgr(<<"0">>)}

InitColour ==
    /\ pane \in FreshPanes
    /\ out = <<>>
    /\ renders = 0
    /\ steps = 0
    /\ feed \in {[input |-> i, pos |-> 0] : i \in ColourScenarios}
    /\ par = IdleParser
    /\ sty = IdleStyle
    /\ hist = IdleHist
    /\ panes = NoPanes
    /\ ctl = NoControl

SpecColour == InitColour /\ [][NextFeed]_vars

(***************************************************************************)
(* Cursor gotos handed to a fresh pane in consecutive chunks.              *)
(***************************************************************************)
\* ESC [ 99 ; 99 H : a row and a column larger than the pane
GotoFar == <<ESC, "[", "9", "9", ";", "9", "9", "H">>

GotoScenarios ==
    {GotoFar,
     <<"A">> \o GotoFar,
     <<"A", LF>> \o GotoFar,
     <<ESC, "[", "1", ";", "1", "H">> \o GotoFar,
     GotoFar \o <<"A">>}

InitGoto ==
    /\ pane \in FreshPanes
    /\ out = <<>>
    /\ renders = 0
    /\ steps = 0
    /\ feed \in {[input |-> i, pos |-> 0] : i \in GotoScenarios}
    /\ par = IdleParser
    /\ sty = IdleStyle
    /\ hist = IdleHist
    /\ panes = NoPanes
    /\ ctl = NoControl

SpecGoto == InitGoto /\ [][NextFeed]_vars

(***************************************************************************)
(* The viewport's lines on their own: mut_line and take_visible_lines.     *)
(***************************************************************************)
\* what a caller of mut_line writes at the start of the line ("" : nothing)
LineMarks == {"", "A", "B"}

MarkLine(line, c) == IF c = "" THEN line ELSE set(line, 0, c, DefaultStyle)

\* view_port.mut_line(index), and the caller's write through the reference
MutLine(index, c) ==
    /\ LET p1 == mut_line(pane, index)
       IN  pane' = [p1 EXCEPT !.visible_lines[index + 1] = MarkLine(@, c)]
    /\ hist' = IdleHist
    /\ UNCHANGED <<out, renders, steps, feed, par, sty, panes, ctl>>

\* view_port.take_visible_lines()
TakeLines ==
    /\ hist' = [taken |-> TRUE, lines |-> pane.visible_lines]
    /\ pane' = take_visible_lines(pane)
    /\ UNCHANGED <<out, renders, steps, feed, par, sty, panes, ctl>>

NextLines ==
    \/ \E index \in 0..(PaneHeight + 1) : \E c \in LineMarks : MutLine(index, c)
    \/ TakeLines

SpecLines == Init /\ [][NextLines]_vars

(***************************************************************************)
(* The tokeniser fed with the characters of CSI sequences.                 *)
(***************************************************************************)
SeqChars == {ESC, "[", ">", " ", "m", LF}

NextSeq ==
    \/ \E c \in SeqChars : ParserPush(c)
    \/ ParserConsume

SpecSeq == InitParser /\ [][NextSeq]_vars

(***************************************************************************)
(* Input holding SGR sequences that apply_vt100 does not accept.           *)
(***************************************************************************)
MalformedScenarios ==
    {Sgr(<<"3", "8", ";", "9">>) \o <<"A">>,
     Sgr(<<"3", "8", ";", "9">>) \o <<"A">> \o Sgr(<<"3", "3">>) \o <<"B">>,
     <<"A">> \o Sgr(<<"4", "8", ";", "7">>) \o <<LF, "B">>,
     Sgr(<<"3", "8">>) \o <<"A">>,
     Sgr(<<"3", "3">>) \o <<"A">>}

InitMalformed ==
    /\ pane \in FreshPanes
    /\ out = <<>>
    /\ renders = 0
    /\ steps = 0
    /\ feed \in {[input |-> i, pos |-> 0] : i \in MalformedScenarios}
    /\ par = IdleParser
    /\ sty = IdleStyle
    /\ hist = IdleHist
    /\ panes = NoPanes
    /\ ctl = NoControl

SpecMalformed == InitMalformed /\ [][NextFeed]_vars

(***************************************************************************)
(* PaneManager: the registered panes, pushed to by task id and rendered    *)
(* together.                                                               *)
(***************************************************************************)
TaskIds == {"main", "side"}

\* main.rs registers the configured panes; the main pane scrolls
RegisteredPanes ==
    {[t \in TaskIds |->
         IF t = "main"
         THEN NewPane(PaneX, PaneY, PaneHeight, PaneWidth, "Scroll", b, l)
         ELSE NewPane(PaneX + PaneWidth, PaneY + 1, PaneHeight, PaneWidth, "Fixed", b, l)] :
        b \in Builds, l \in BOOLEAN}

ManagerMenu == {<<"A">>, <<LF>>, GotoFar}

AnyPanic(ps) == \E t \in DOMAIN ps : ps[t].panic

InitManager ==
    /\ pane = NewPane(PaneX, PaneY, PaneHeight, PaneWidth, "Fixed", "debug", FALSE)
    /\ out = <<>>
    /\ renders = 0
    /\ steps = 0
    /\ feed = IdleFeed
    /\ par = IdleParser
    /\ sty = IdleStyle
    /\ hist = IdleHist
    /\ panes \in RegisteredPanes
    /\ ctl = NoControl

\* every registered pane receives the data
ManagerPushAll(task_id, data) ==
    /\ steps < MaxSteps
    /\ ~AnyPanic(panes)
    /\ panes' = [t \in DOMAIN panes |-> PanePush(panes[t], data)]
    /\ out' = <<>>
    /\ renders' = 0
    /\ steps' = steps + 1
    /\ feed' = [input |-> data, pos |-> 0, task_id |-> task_id]
    /\ UNCHANGED <<pane, par, sty, hist, ctl>>

\* PaneManager::push: output for an unregistered task is dropped, an error of
\* Pane::push is logged; feed keeps the arguments of the call
ManagerPush(task_id, data) ==
    /\ steps < MaxSteps
    /\ ~AnyPanic(panes)
    /\ panes' = IF task_id \in DOMAIN panes
                THEN [panes EXCEPT ![task_id] = PanePush(@, data)]
                ELSE panes
    /\ out' = <<>>
    /\ renders' = 0
    /\ steps' = steps + 1
    /\ feed' = [input |-> data, pos |-> 0, task_id |-> task_id]
    /\ UNCHANGED <<pane, par, sty, hist, ctl>>

TakeSideCursor(ps) == take_cursor(ps["side"])

\* find_by_id("main").unwrap().take_cursor(target)
TakeMainCursor(ps) == take_cursor(ps["main"])

RECURSIVE WritePanes(_, _)
\* one pane written, then the rest of the iteration
WriteNext(ps, order, r) ==
    IF r.p.panic
    THEN [panes |-> [ps EXCEPT ![Head(order)] = r.p], bytes |-> r.bytes]
    ELSE [panes |-> WritePanes([ps EXCEPT ![Head(order)] = r.p], Tail(order)).panes,
          bytes |-> r.bytes
                    \o WritePanes([ps EXCEPT ![Head(order)] = r.p], Tail(order)).bytes]

\* the loop of PaneManager::write over panes.iter_mut(), in the order the
\* HashMap yields the panes, and the cursor of the main pane after it
WritePanes(ps, order) ==
    IF order = <<>> THEN [panes |-> ps, bytes |-> TakeMainCursor(ps)]
    ELSE WriteNext(ps, order, PaneWrite(ps[Head(order)]))

IterOrders == {o \in [1..Cardinality(TaskIds) -> TaskIds] :
                  \A i, j \in DOMAIN o : i # j => o[i] # o[j]}

\* PaneManager::write to a target that accepts every byte
ManagerWrite(order) ==
    /\ steps < MaxSteps
    /\ ~AnyPanic(panes)
    /\ renders < 2
    /\ panes' = WritePanes(panes, order).panes
    /\ out' = WritePanes(panes, order).bytes
    /\ renders' = renders + 1
    /\ steps' = steps + 1
    /\ UNCHANGED <<pane, feed, par, sty, hist, ctl>>

NextManager ==
    \/ \E task_id \in TaskIds \cup {"ghost"} : \E data \in ManagerMenu :
          ManagerPush(task_id, data)
    \/ \E order \in IterOrders : ManagerWrite(order)

SpecManager == InitManager /\ [][NextManager]_vars

(***************************************************************************)
(* PrintStyle fed with SGR sequences, malformed ones among them.           *)
(***************************************************************************)
\* 38 or 48 followed by a selector other than 2 or 5, or by too few parameters
MalformedSgr ==
    {Sgr(<<"3", "8", ";", "9">>),
     Sgr(<<"1", ";", "3", "8", ";", "9">>),
     Sgr(<<"3", "3", ";", "4", "8", ";", "7">>),
     Sgr(<<"3", "8">>),
     Sgr(<<"3", "8", ";", "2", ";", "1">>),
     Sgr(<<"4", ";", "4", "8", ";", "5">>)}

SgrCodes ==
    MalformedSgr \cup
    {Sgr(<<"1">>), Sgr(<<"3">>), Sgr(<<"4">>), Sgr(<<"7">>), Sgr(<<"3", "3">>),
     Sgr(<<"4", "6">>), Sgr(<<"3", "8", ";", "5", ";", "9">>), Sgr(<<"0">>),
     Sgr(<<>>), Sgr(<<"4", "9">>)}

\* style.apply_vt100(code): the style is updated in place, whatever is returned
SgrApply(code) ==
    /\ sty.res.status # "Panic"
    /\ sty' = [sty EXCEPT !.a = apply_vt100(sty.a, code).style,
                          !.op = "apply",
                          !.res = apply_vt100(sty.a, code)]
    /\ feed' = [input |-> code, pos |-> Len(code)]
    /\ UNCHANGED <<pane, out, renders, steps, par, hist, panes, ctl>>

NextSgr == \E code \in SgrCodes : SgrApply(code)

SpecSgr == InitStyle /\ [][NextSgr]_vars

(***************************************************************************)
(* A pane fed with cursor movements; feed keeps the string of the last     *)
(* push.                                                                   *)
(***************************************************************************)
MoveMenu ==
    {<<"A">>, <<LF>>,
     <<ESC, "D">>, <<ESC, "[", "D">>, <<ESC, "[", "2", "D">>,
     <<ESC, "[", "2", "A">>, <<ESC, "[", "B">>, <<ESC, "[", "0", "C">>,
     <<ESC, "[", "6", "5", "5", "3", "5", "C">>,
     <<ESC, "[", "6", "5", "5", "3", "5", "B">>}

\* pane.push(s)
PushCode(s) ==
    /\ steps < MaxSteps
    /\ ~pane.panic
    /\ pane' = PanePush(pane, s)
    /\ feed' = [input |-> s, pos |-> Len(s)]
    /\ steps' = steps + 1
    /\ UNCHANGED <<out, renders, par, sty, hist, panes, ctl>>

NextMoves == \E s \in MoveMenu : PushCode(s)

SpecMoves == Init /\ [][NextMoves]_vars

(***************************************************************************)
(* Fresh panes of every height up to PaneHeight: a cursor-goto to a row,   *)
(* then text.                                                              *)
(***************************************************************************)
GotoRow(r) == <<ESC, "[">> \o FmtNum(r) \o <<";", "1", "H">>

RowMenu == {GotoRow(r) : r \in 1..(PaneHeight + 1)} \cup {<<"A">>, <<"A", "B">>}

InitRows ==
    /\ pane \in TextPanes
    /\ out = <<>>
    /\ renders = 0
    /\ steps = 0
    /\ feed = IdleFeed
    /\ par = IdleParser
    /\ sty = IdleStyle
    /\ hist = IdleHist
    /\ panes = NoPanes
    /\ ctl = NoControl

NextRows == \E s \in RowMenu : PushCode(s)

SpecRows == InitRows /\ [][NextRows]_vars

(***************************************************************************)
(* One GlyphString: characters set at any index, the line written in       *)
(* between.  hist.lines holds the line, feed the arguments of the last set.*)
(***************************************************************************)
YellowStyle == [DefaultStyle EXCEPT !.foreground = Basic("Yellow")]

InitGlyphs ==
    /\ pane = NewPane(PaneX, PaneY, PaneHeight, PaneWidth, "Fixed", "debug", FALSE)
    /\ out = <<>>
    /\ renders = 0
    /\ steps = 0
    /\ feed = IdleFeed
    /\ par = IdleParser
    /\ sty = IdleStyle
    /\ hist = [taken |-> FALSE, lines |-> <<NewGlyphString>>]
    /\ panes = NoPanes
    /\ ctl = NoControl

\* line.set(index, c, &style)
LineSet(index, c, style) ==
    /\ steps < MaxSteps
    /\ hist' = [hist EXCEPT !.lines[1] = set(@, index, c, style)]
    /\ feed' = [input |-> <<c>>, pos |-> index, style |-> style]
    /\ steps' = steps + 1
    /\ UNCHANGED <<pane, out, renders, par, sty, panes, ctl>>

\* line.write(...): the glyphs within the width and the line are no longer dirty
LineWrite ==
    /\ steps < MaxSteps
    /\ hist' = [hist EXCEPT !.lines[1] = write(@, PaneX, PaneY, PaneWidth, DefaultStyle).line]
    /\ feed' = IdleFeed
    /\ steps' = steps + 1
    /\ UNCHANGED <<pane, out, renders, par, sty, panes, ctl>>

NextGlyphs ==
    \/ \E index \in 0..(PaneWidth + 1) : \E c \in {"A", "B"} :
          \E style \in {DefaultStyle, YellowStyle} : LineSet(index, c, style)
    \/ LineWrite

SpecGlyphs == InitGlyphs /\ [][NextGlyphs]_vars

(***************************************************************************)
(* A pane fed with text, tabs and the sequences that Pane::push hands on   *)
(* to the host terminal.                                                   *)
(***************************************************************************)
PassCodes ==
    {<<ESC, "[", "?", "1", "0", "4", "9", "h">>,
     <<ESC, "[", "?", "2", "5", "l">>,
     <<ESC, "[", "?", "1", "h">>,
     <<ESC, "[", "6", "n">>,
     <<ESC, "[", "5", "k">>}

PassMenu == PassCodes \cup {<<"A">>, <<TAB>>, <<CR>>, Sgr(<<"3", "3">>)}

NextPass == \E s \in PassMenu : PushCode(s)

SpecPass == Init /\ [][NextPass]_vars

(***************************************************************************)
(* A pane fed with text, erase sequences and cursor-gotos.                 *)
(***************************************************************************)
EraseMenu ==
    {<<"A">>, Sgr(<<"3", "3">>), <<ESC, "[", "D">>,
     <<ESC, "[", "K">>, <<ESC, "[", "0", "K">>, <<ESC, "[", "1", "K">>,
     <<ESC, "[", "0", ";", "0", "H">>, <<ESC, "k">>}

NextErase == \E s \in EraseMenu : PushCode(s)

SpecErase == Init /\ [][NextErase]_vars

(***************************************************************************)
(* The host terminal: a region of character cells, blank at first, that    *)
(* takes the bytes of every render.  hist.lines holds the cells.           *)
(***************************************************************************)
HostRows == PaneY + PaneHeight + 1
HostCols == PaneX + PaneWidth + 1

BlankHost == [r \in 1..HostRows |-> [c \in 1..HostCols |-> " "]]

\* a character put into a cell; outside the region nothing is shown
HostPut(cells, row, col, ch) ==
    IF row \in 1..HostRows /\ col \in 1..HostCols
    THEN [cells EXCEPT ![row][col] = ch]
    ELSE cells

\* the index of the final character of the sequence that bytes starts with
HostSeqEnd(bytes) ==
    CHOOSE j \in 3..Len(bytes) :
        /\ bytes[j] \in {"H", "m"}
        /\ \A i \in 3..(j - 1) : bytes[i] \notin {"H", "m"}

RECURSIVE HostApply(_, _, _, _)
\* the host terminal takes bytes: ESC [ row ; col H moves its cursor, an SGR
\* sequence changes colours only, any other character fills the cell under the
\* cursor and moves the cursor one column right
HostApply(cells, row, col, bytes) ==
    IF bytes = <<>> THEN cells
    ELSE IF Head(bytes) = ESC
    THEN IF bytes[HostSeqEnd(bytes)] = "H"
         THEN HostApply(cells,
                        DigitsVal(SplitSemi(SubSeq(bytes, 3, HostSeqEnd(bytes) - 1))[1]),
                        DigitsVal(SplitSemi(SubSeq(bytes, 3, HostSeqEnd(bytes) - 1))[2]),
                        SubSeq(bytes, HostSeqEnd(bytes) + 1, Len(bytes)))
         ELSE HostApply(cells, row, col, SubSeq(bytes, HostSeqEnd(bytes) + 1, Len(bytes)))
    ELSE HostApply(HostPut(cells, row, col, Head(bytes)), row, col + 1, Tail(bytes))

HostMenu == {<<"A">>, <<LF>>, <<"A", LF, "B", LF>>}

InitHost ==
    /\ pane \in FreshPanes
    /\ out = <<>>
    /\ renders = 0
    /\ steps = 0
    /\ feed = IdleFeed
    /\ par = IdleParser
    /\ sty = IdleStyle
    /\ hist = [taken |-> FALSE, lines |-> BlankHost]
    /\ panes = NoPanes
    /\ ctl = NoControl

\* pane.write(target), the target being the host terminal
RenderHost ==
    /\ steps < MaxSteps
    /\ ~pane.panic
    /\ renders < 2
    /\ pane' = PaneWrite(pane).p
    /\ out' = PaneWrite(pane).bytes
    /\ hist' = [hist EXCEPT !.lines = HostApply(@, 1, 1, PaneWrite(pane).bytes)]
    /\ renders' = renders + 1
    /\ steps' = steps + 1
    /\ UNCHANGED <<feed, par, sty, panes, ctl>>

NextHost ==
    \/ \E s \in HostMenu : Push(s)
    \/ RenderHost

SpecHost == InitHost /\ [][NextHost]_vars

(***************************************************************************)
(* MasterControl and ProcessOrchestrator.  The main thread sends commands  *)
(* on the command channel and awaits the responses on the response         *)
(* channel; the orchestrator thread handles one command at a time; the     *)
(* periodic task loop sends commands of its own.  A string is a sequence   *)
(* of words, ":" and " " being words of their own.                         *)
(***************************************************************************)
TaskNames == {<<"top">>}

\* format!("{}: {}", command, metadata)
CommandText(command, metadata) == <<command, ":", " ">> \o metadata

FirstColon(s) == CHOOSE i \in DOMAIN s : s[i] = ":" /\ \A j \in 1..(i - 1) : s[j] # ":"

RECURSIVE SplitColon(_)
\* str::split(":")
SplitColon(s) ==
    IF \A i \in DOMAIN s : s[i] # ":" THEN <<s>>
    ELSE <<SubSeq(s, 1, FirstColon(s) - 1)>>
         \o SplitColon(SubSeq(s, FirstColon(s) + 1, Len(s)))

RECURSIVE trim(_)
\* str::trim
trim(s) ==
    IF s = <<>> THEN s
    ELSE IF Head(s) = " " THEN trim(Tail(s))
    ELSE IF s[Len(s)] = " " THEN trim(SubSeq(s, 1, Len(s) - 1))
    ELSE s

RECURSIVE JoinColon(_)
\* parts.join(":")
JoinColon(parts) ==
    IF parts = <<>> THEN <<>>
    ELSE IF Len(parts) = 1 THEN parts[1]
    ELSE parts[1] \o <<":">> \o JoinColon(Tail(parts))

\* the parts of a command as process_commands takes them: every part trimmed
CommandParts(command) == [i \in DOMAIN SplitColon(command) |-> trim(SplitColon(command)[i])]

\* cmd = parts.first(), data = parts[1..].join(":")
ParseCommand(command) ==
    [command |-> Head(CommandParts(command)),
     data |-> JoinColon(Tail(CommandParts(command)))]

\* both channels empty, the main thread outside every call, nothing handled yet
NewControl ==
    [cmd |-> <<>>, resp |-> <<>>, pc |-> "main", name |-> <<>>, calls |-> 0,
     received |-> <<>>, sent |-> <<>>]

InitControl ==
    /\ pane = NewPane(PaneX, PaneY, PaneHeight, PaneWidth, "Fixed", "debug", FALSE)
    /\ out = <<>>
    /\ renders = 0
    /\ steps = 0
    /\ feed = IdleFeed
    /\ par = IdleParser
    /\ sty = IdleStyle
    /\ hist = IdleHist
    /\ panes = NoPanes
    /\ ctl = NewControl

\* MasterControl::send_command
send_command(c, command, metadata) ==
    [c EXCEPT !.cmd = Append(@, CommandText(command, metadata))]

\* MasterControl::execute is entered: its loop awaits a response first
ExecuteCall(name) ==
    /\ steps < MaxSteps
    /\ ctl.pc = "main"
    /\ ctl' = [ctl EXCEPT !.pc = "execute", !.name = name, !.calls = @ + 1]
    /\ steps' = steps + 1
    /\ UNCHANGED <<pane, out, renders, feed, par, sty, hist, panes>>

\* the response type await_response compares: parts.first() of split(":")
ResponseType(resp) == Head(SplitColon(resp))

\* await_response: recv_timeout yields the next response; one of the expected
\* type ends the call, any other is logged and dropped
AwaitResponse ==
    /\ ctl.pc \in {"execute", "running"}
    /\ ctl.resp # <<>>
    /\ ctl' = [ctl EXCEPT !.resp = Tail(@),
                          !.pc = IF ResponseType(Head(ctl.resp)) = <<ctl.pc>>
                                 THEN "main" ELSE @]
    /\ UNCHANGED <<pane, out, renders, steps, feed, par, sty, hist, panes>>

\* the loop body of execute: recv_timeout ran out with no response in the
\* channel, await_response returned Err and the command is sent
ExecuteTimeout ==
    /\ steps < MaxSteps
    /\ ctl.pc = "execute"
    /\ ctl.resp = <<>>
    /\ ctl' = send_command(ctl, "execute", ctl.name)
    /\ steps' = steps + 1
    /\ UNCHANGED <<pane, out, renders, feed, par, sty, hist, panes>>

\* MasterControl::running sends its command, then awaits the response
RunningCall ==
    /\ steps < MaxSteps
    /\ ctl.pc = "main"
    /\ ctl' = [send_command(ctl, "running", <<>>) EXCEPT !.pc = "running"]
    /\ steps' = steps + 1
    /\ UNCHANGED <<pane, out, renders, feed, par, sty, hist, panes>>

\* await_response("running").unwrap() on a timeout: the main thread panics
RunningTimeout ==
    /\ ctl.pc = "running"
    /\ ctl.resp = <<>>
    /\ ctl' = [ctl EXCEPT !.pc = "panic"]
    /\ UNCHANGED <<pane, out, renders, steps, feed, par, sty, hist, panes>>

\* the periodic task loop: commander.send("local_execute: <task id>")
PeriodicTask(name) ==
    /\ steps < MaxSteps
    /\ ctl' = send_command(ctl, "local_execute", name)
    /\ steps' = steps + 1
    /\ UNCHANGED <<pane, out, renders, feed, par, sty, hist, panes>>

\* command.starts_with("local")
StartsWithLocal(command) ==
    /\ command # <<>>
    /\ Head(command) \in {"local", "local_execute"}

\* what the match of handle_command can yield: spawning the child of an
\* interactive task can fail, running() reports whether a child is alive
CmdResults(command) ==
    CASE command \in {<<"execute">>, <<"local_execute">>} -> {"Ok", "spawn"}
      [] command = <<"running">> -> {"Ok", "not running"}
      [] OTHER -> {"Ok"}

\* format!("{}: Success", command) and format!("{}: Error - {}", command, e)
ResponseText(command, result) ==
    IF result = "Ok" THEN command \o <<":", " ", "Success">>
    ELSE command \o <<":", " ", "Error", " ", "-", " ", result>>

\* a response goes out for every command, local ones included
handle_command_local(c, command, data, result) ==
    [c EXCEPT !.received = Append(@, [command |-> command, data |-> data]),
              !.resp = Append(@, ResponseText(command, result)),
              !.sent = Append(@, ResponseText(command, result))]

\* ProcessOrchestrator::handle_command: the command is run, and unless its
\* name starts with "local" its result is sent on the response channel
handle_command(c, command, data, result) ==
    [c EXCEPT !.received = Append(@, [command |-> command, data |-> data]),
              !.resp = IF StartsWithLocal(command) THEN @
                       ELSE Append(@, ResponseText(command, result)),
              !.sent = IF StartsWithLocal(command) THEN @
                       ELSE Append(@, ResponseText(command, result))]

\* one turn of the loop of process_commands: command_rx.recv(), the split
\* into command and data, handle_command
ProcessCommands ==
    /\ ctl.cmd # <<>>
    /\ \E result \in CmdResults(ParseCommand(Head(ctl.cmd)).command) :
           ctl' = handle_command([ctl EXCEPT !.cmd = Tail(@)],
                                 ParseCommand(Head(ctl.cmd)).command,
                                 ParseCommand(Head(ctl.cmd)).data, result)
    /\ UNCHANGED <<pane, out, renders, steps, feed, par, sty, hist, panes>>

NextControl ==
    \/ \E name \in TaskNames : ExecuteCall(name)
    \/ AwaitResponse
    \/ ExecuteTimeout
    \/ RunningCall
    \/ RunningTimeout
    \/ \E name \in TaskNames : PeriodicTask(name)
    \/ ProcessCommands

SpecControl == InitControl /\ [][NextControl]_vars


(***************************************************************************)
(* Properties.                                                             *)
(***************************************************************************)
\* what a claim about the pane's state looks at
ViewState(p) == [lines |-> p.visible_lines, cursor |-> p.cursor, style |-> p.cur_style]

PlainLines(p) == [i \in 1..Len(p.visible_lines) |-> plaintext(p.visible_lines[i])]

\* a pane built like p, before any push
Fresh(p) == NewPane(p.x, p.y, p.height, p.width, p.scroll_mode, p.build, p.logging)

FeedDone == feed.pos = Len(feed.input) /\ feed.input # <<>>

\* C1: however the input is cut into chunks, the pane ends in the state (grid,
\* cursor, style, dirty flags) that a single push of the whole input gives, and
\* the following render writes the same bytes.
C1_ChunkingIrrelevant ==
    FeedDone =>
        LET whole == PanePush(Fresh(pane), feed.input)
        IN  /\ pane.panic = whole.panic
            /\ ViewState(pane) = ViewState(whole)
            /\ PaneWrite(pane).bytes = PaneWrite(whole).bytes

\* the text lines of an input made of text and LF
RECURSIVE TextLines(_)
TextLines(s) ==
    IF \A i \in 1..Len(s) : s[i] # LF THEN <<s>>
    ELSE LET i == CHOOSE k \in 1..Len(s) : s[k] = LF /\ \A j \in 1..(k - 1) : s[j] # LF
         IN  <<SubSeq(s, 1, i - 1)>> \o TextLines(SubSeq(s, i + 1, Len(s)))

\* the input is LF-separated lines of letters, none empty, none wider than the pane
IsLfText(s, width) ==
    /\ \A i \in 1..Len(s) : s[i] \in {"A", "B", "C", "D", LF}
    /\ \A i \in 1..Len(TextLines(s)) :
          Len(TextLines(s)[i]) \in 1..width

\* C2: in Scroll mode, after more LF-separated lines than the pane is high, the
\* stored lines are the last `height` lines written, in order.
C2_ScrollKeepsLastLines ==
    (/\ FeedDone
     /\ pane.scroll_mode = "Scroll"
     /\ IsLfText(feed.input, pane.width)
     /\ Len(TextLines(feed.input)) > pane.height)
    => /\ ~pane.panic
       /\ PlainLines(pane) =
             SubSeq(TextLines(feed.input),
                    Len(TextLines(feed.input)) - pane.height + 1,
                    Len(TextLines(feed.input)))

\* C3: in Fixed mode, output after the cursor has left the bottom row is dropped:
\* the stored lines stay the first `height` lines written.
C3_FixedDropsOverflow ==
    (/\ FeedDone
     /\ pane.scroll_mode = "Fixed"
     /\ IsLfText(feed.input, pane.width)
     /\ Len(TextLines(feed.input)) > pane.height)
    => /\ ~pane.panic
       /\ PlainLines(pane) = SubSeq(TextLines(feed.input), 1, pane.height)

\* C4: in every reachable state 0 <= cursor.x <= width and 0 <= cursor.y <= height.
C4_CursorInBounds ==
    /\ pane.cursor.x \in 0..pane.width
    /\ pane.cursor.y \in 0..pane.height

\* the cursor has been driven to both upper limits
C4_Witness ==
    /\ steps > 0
    /\ pane.cursor.x = pane.width
    /\ pane.cursor.y = pane.height

\* C5: after a render no stored line is dirty, and a second render with no push
\* in between writes nothing.
C5_RenderIdempotent ==
    /\ (renders >= 1 /\ ~pane.panic) =>
          \A i \in 1..Len(pane.visible_lines) : ~dirty(pane.visible_lines[i])
    /\ renders = 2 => out = <<>>

\* the cells of the host screen that a stream of rendered characters writes:
\* a cursor-positioning sequence moves the host cursor, every other character
\* outside a control sequence fills one cell and advances by one column
RECURSIVE HostCellsOf(_, _, _)
HostCellsOf(toks, row, col) ==
    IF toks = <<>> THEN {}
    ELSE LET tk == Head(toks)
         IN  IF tk.t = "Plaintext"
             THEN {<<row, col + k - 1>> : k \in 1..Len(tk.s)}
                  \cup HostCellsOf(Tail(toks), row, col + Len(tk.s))
             ELSE IF tk.kind = "MoveCursor" /\ tk.s[Len(tk.s)] = "H"
             THEN HostCellsOf(Tail(toks), ParseOr1(HOME_REGEX(tk.s).g1, I32Max),
                              ParseOr1(HOME_REGEX(tk.s).g2, I32Max))
             ELSE HostCellsOf(Tail(toks), row, col)

HostCells(bytes) == HostCellsOf(consume(StreamPush(NewStreamState, bytes)).out, 1, 1)

\* C6: every cell a render writes lies inside the pane's rectangle, and every
\* emitted line fills exactly the `width` columns starting at pane.x.
C6_RenderInsideRectangle ==
    (renders >= 1 /\ ~pane.panic) =>
        LET cells == HostCells(out)
            cols == pane.x..(pane.x + pane.width - 1)
        IN  /\ \A c \in cells :
                  /\ c[1] \in pane.y..(pane.y + pane.height - 1)
                  /\ c[2] \in cols
            /\ \A c \in cells : \A k \in cols : <<c[1], k>> \in cells

\* C7: after a consume, the raw text of all tokens returned so far followed by
\* the pending buffer is the pushed text; when the last character completed a
\* sequence nothing is pending.
C7_ParserLossless ==
    par.last = "consume" =>
        /\ as_raw_string(par.tokens) \o par.ss.buffer = par.pushed
        /\ par.ss.build_state = "PlainText" =>
              (par.ss.buffer = <<>> /\ as_raw_string(par.tokens) = par.pushed)

\* a consume has returned a control sequence and text, and a sequence is pending
C7_Witness ==
    /\ par.last = "consume"
    /\ par.ss.buffer # <<>>
    /\ \E i \in 1..Len(par.tokens) : par.tokens[i].t = "CSI"
    /\ \E i \in 1..Len(par.tokens) : par.tokens[i].t = "Plaintext"

\* C8: a style equal to a, updated with the bytes of a.diff_str(b), equals b.
C8_DiffReachesTarget ==
    sty.op = "diff" => (sty.res.status = "Ok" /\ sty.res.style = sty.b)

\* C9: replaying a.to_str() into a default style reconstructs a.
C9_ToStrRoundTrip ==
    sty.op = "replay" => (sty.res.status = "Ok" /\ sty.res.style = sty.a)

\* C10: no push panics.
C10_PushNeverPanics == ~pane.panic


\* C11: when the writer reports a failure during a render, every line that was
\* dirty when the render started is still dirty afterwards.
C11_FailedRenderKeepsDirty ==
    [][(steps' = steps + 1 /\ pane'.result = "WriteErr") =>
          LET before == take_visible_lines(pane).visible_lines
          IN  \A i \in 1..Len(before) :
                 dirty(before[i]) =>
                    (i <= Len(pane'.visible_lines) /\ dirty(pane'.visible_lines[i]))]_vars

IsPrintableAscii(s) == \A i \in 1..Len(s) : CodePoint(s[i]) \in 32..126

\* C12: a string of printable ASCII characters no longer than the pane is wide,
\* pushed into a fresh pane, is the plaintext of row 0, and the cursor ends at
\* x = |s|, y = 0.
C12_TextRoundTrip ==
    (FeedDone /\ IsPrintableAscii(feed.input) /\ Len(feed.input) <= pane.width)
    => /\ ~pane.panic
       /\ Len(pane.visible_lines) >= 1
       /\ plaintext(pane.visible_lines[1]) = feed.input
       /\ pane.cursor.x = Len(feed.input)
       /\ pane.cursor.y = 0

\* a string as long as the pane is wide, holding a bracket, went in by chunks
C12_Witness ==
    /\ FeedDone
    /\ Len(feed.input) = pane.width
    /\ pane.height = 1
    /\ \E i \in 1..Len(feed.input) : feed.input[i] = "["
    /\ plaintext(pane.visible_lines[1]) = feed.input
    /\ pane.cursor.x = pane.width

\* pat occurs in s as a run of consecutive characters
IsInfix(pat, s) ==
    \E i \in 0..(Len(s) - Len(pat)) : SubSeq(s, i + 1, i + Len(pat)) = pat

\* the input without the reset that may end it
ColouredPart(s) ==
    IF Len(s) >= 4 /\ SubSeq(s, Len(s) - 3, Len(s)) = Sgr(<<"0">>)
    THEN SubSeq(s, 1, Len(s) - 4) ELSE s

\* C13: text pushed after an SGR selecting a colour is rendered with the SGR
\* bytes of that colour ahead of it, whatever the pane's current style is at
\* render time, and a later background SGR appears alone before the second run.
C13_RenderCarriesColour ==
    (FeedDone /\ ~pane.panic) =>
        IsInfix(ColouredPart(feed.input), PaneWrite(pane).bytes)

EndsWith(s, suffix) ==
    Len(s) >= Len(suffix) /\ SubSeq(s, Len(s) - Len(suffix) + 1, Len(s)) = suffix

\* C14: a goto whose row and column are larger than the pane leaves the cursor
\* on the last cell of the pane, x = width - 1 and y = height - 1.
C14_GotoClampsToLastCell ==
    (FeedDone /\ ~pane.panic /\ EndsWith(feed.input, GotoFar)) =>
        /\ pane.cursor.x = pane.width - 1
        /\ pane.cursor.y = pane.height - 1

\* C15: when take_visible_lines returns at most `height` lines are stored:
\* Scroll has removed the excess from the front, Fixed from the back, and lines
\* within the bound are unchanged.
C15_TakeBoundsLines ==
    hist.taken =>
        LET n == Len(hist.lines)
            h == pane.height
        IN  /\ Len(pane.visible_lines) <= h
            /\ n <= h => pane.visible_lines = hist.lines
            /\ (n > h /\ pane.scroll_mode = "Scroll") =>
                  pane.visible_lines = SubSeq(hist.lines, n - h + 1, n)
            /\ (n > h /\ pane.scroll_mode = "Fixed") =>
                  pane.visible_lines = SubSeq(hist.lines, 1, h)

\* a Scroll viewport held two lines too many, the first unlike the others
C15_Witness ==
    /\ hist.taken
    /\ pane.scroll_mode = "Scroll"
    /\ Len(hist.lines) = pane.height + 2
    /\ plaintext(hist.lines[1]) = <<"A">>
    /\ plaintext(pane.visible_lines[1]) = <<"B">>

\* C16: consume returns the vetted tokens in order and empties the queue; it
\* changes the pending buffer only when the buffer is exactly one bare ESC,
\* which it returns as Plaintext while the parser goes back to plain text.
C16_ConsumeFrame ==
    [][par'.last = "consume" =>
          /\ par'.ss.vetted_output = <<>>
          /\ IF par.ss.buffer = <<ESC>>
             THEN /\ par'.ss.buffer = <<>>
                  /\ par'.ss.build_state = "PlainText"
                  /\ par'.tokens = par.tokens \o NonEmpty(par.ss.vetted_output)
                                      \o <<Plaintext(<<ESC>>)>>
             ELSE /\ par'.ss.buffer = par.ss.buffer
                  /\ par'.ss.build_state = par.ss.build_state
                  /\ par'.tokens = par.tokens \o NonEmpty(par.ss.vetted_output)]_vars

\* s is ESC [ followed by parameter characters and then intermediate characters
IsPendingCsi(s) ==
    /\ Len(s) >= 2
    /\ s[1] = ESC
    /\ s[2] = "["
    /\ \E a \in 3..(Len(s) + 1) :
          /\ \A k \in 3..(a - 1) : IsParameter(s[k])
          /\ \A k \in a..Len(s) : IsIntermediate(s[k])

\* C17: an incomplete control sequence in the pending buffer is left alone by
\* consume, stays pending while parameter and intermediate characters arrive,
\* and is returned whole, as one CSI token, when its final character arrives.
C17_SequenceNeverSplit ==
    [][IsPendingCsi(par.ss.buffer) =>
          LET c == par'.pushed[Len(par'.pushed)]
              grown == Append(par.ss.buffer, c)
              n == Len(par'.ss.vetted_output)
          IN  /\ par'.last = "consume" =>
                    /\ par'.ss.buffer = par.ss.buffer
                    /\ par'.tokens = par.tokens \o NonEmpty(par.ss.vetted_output)
              /\ (par'.last = "push" /\ IsPendingCsi(grown)) =>
                    /\ par'.ss.buffer = grown
                    /\ par'.ss.vetted_output = par.ss.vetted_output
              /\ (par'.last = "push" /\ CodePoint(c) \in 64..126) =>
                    /\ par'.ss.buffer = <<>>
                    /\ n = Len(par.ss.vetted_output) + 1
                    /\ par'.ss.vetted_output[n].t = "CSI"
                    /\ par'.ss.vetted_output[n].s = grown]_vars

\* the tokens of an input without the SGR sequences that apply_vt100 rejects
RECURSIVE WellFormedPart(_)
WellFormedPart(toks) ==
    IF toks = <<>> THEN <<>>
    ELSE LET tok == Head(toks)
         IN  (IF tok.t = "CSI" /\ tok.kind = "SGR"
                    /\ apply_vt100(DefaultStyle, tok.s).status # "Ok"
              THEN <<>> ELSE tok.s) \o WellFormedPart(Tail(toks))

WithoutMalformed(s) == WellFormedPart(consume(StreamPush(NewStreamState, s)).out)

HasMalformed(s) == WithoutMalformed(s) # s

RowTexts(p) == [i \in 1..Len(p.visible_lines) |-> plaintext(p.visible_lines[i])]

\* C18: a push that holds a malformed SGR sequence leaves the text of the rows
\* and the cursor where the same push without that sequence leaves them: what
\* follows the malformed sequence is still applied, in order.
C18_MalformedSgrKeepsInput ==
    [][(feed.pos = 0 /\ feed'.pos = Len(feed.input) /\ HasMalformed(feed.input)) =>
          /\ ~pane'.panic
          /\ RowTexts(pane') = RowTexts(PanePush(pane, WithoutMalformed(feed.input)))
          /\ pane'.cursor = PanePush(pane, WithoutMalformed(feed.input)).cursor]_vars

\* ESC [ row ; column H
HostCursorAt(row, column) ==
    <<ESC, "[">> \o FmtNum(row) \o <<";">> \o FmtNum(column) \o <<"H">>

\* the panes' own output in one of the orders the iteration can take
LinesOfAllPanes(ps) ==
    {PaneWrite(ps[o[1]]).bytes \o PaneWrite(ps[o[2]]).bytes : o \in IterOrders}

\* C20: a render pass of the pane manager writes the dirty lines of every pane
\* and then, as its last bytes, one cursor-positioning sequence for row
\* pane.y + cursor.y and column pane.x + cursor.x of the pane registered as main.
C20_MainCursorLast ==
    [][(renders' = renders + 1 /\ ~AnyPanic(panes')) =>
          \E lines \in LinesOfAllPanes(panes) :
              out' = lines \o HostCursorAt(panes'["main"].y + panes'["main"].cursor.y,
                                           panes'["main"].x + panes'["main"].cursor.x)]_vars

\* a pass wrote lines of both panes while the main cursor was away from its origin
C20_Witness ==
    /\ renders = 1
    /\ ~AnyPanic(panes)
    /\ panes["main"].cursor.x > 0
    /\ panes["main"].cursor.y > 0
    /\ panes["side"].cursor.x > 0
    /\ panes["side"].cursor # panes["main"].cursor
    /\ Len(out) > Len(TakeMainCursor(panes))

\* C19: apply_vt100 on a sequence with a malformed extended-colour part returns
\* an error and leaves the style exactly as it was before the call.
C19_MalformedColourKeepsStyle ==
    [][(sty'.op = "apply" /\ feed'.input \in MalformedSgr) =>
          /\ sty'.res.status = "Err"
          /\ sty'.a = sty.a]_vars

\* C21: PaneManager::push changes only the pane registered under task_id; every
\* other pane is unchanged, and data for an unregistered task changes no pane.
C21_PushTouchesOnePane ==
    [][(steps' = steps + 1 /\ renders' = 0) =>
          \A t \in TaskIds : t # feed'.task_id => panes'[t] = panes[t]]_vars

\* the side pane took data while the main pane, pushed to earlier, held lines
\* and had its cursor below the first row
C21_Witness ==
    /\ renders = 0
    /\ steps = 3
    /\ feed.task_id = "side"
    /\ panes["side"].visible_lines # <<>>
    /\ panes["main"].visible_lines # <<>>
    /\ panes["main"].cursor.y > 0

\* the tokens of a string pushed into a new tokeniser
TokensOf(s) == consume(StreamPush(NewStreamState, s)).out

\* C22: ESC D is one ScrollUp token and moves the cursor down one row with x
\* unchanged; ESC [ n D is one MoveCursor token and moves the cursor left by n
\* (1 when n is absent), stopping at column 0, with y unchanged.
C22_ScrollUpVersusLeft ==
    [][steps' = steps + 1 =>
          /\ feed'.input = <<ESC, "D">> =>
                /\ Len(TokensOf(feed'.input)) = 1
                /\ TokensOf(feed'.input)[1].kind = "ScrollUp"
                /\ ~pane'.panic
                /\ pane'.cursor.x = pane.cursor.x
                /\ pane.cursor.y + 1 < pane.height => pane'.cursor.y = pane.cursor.y + 1
          /\ feed'.input \in {<<ESC, "[", "D">>, <<ESC, "[", "2", "D">>} =>
                /\ Len(TokensOf(feed'.input)) = 1
                /\ TokensOf(feed'.input)[1].kind = "MoveCursor"
                /\ ~pane'.panic
                /\ pane'.cursor.y = pane.cursor.y
                /\ pane'.cursor.x =
                      Max(0, pane.cursor.x - (IF Len(feed'.input) = 3 THEN 1 ELSE 2))]_vars

\* C23: SGR code 0 and the empty parameter list both reset every attribute to
\* the default style, whatever the style was before.
C23_ZeroIsFullReset ==
    [][(sty'.op = "apply" /\ feed'.input \in {Sgr(<<"0">>), Sgr(<<>>)}) =>
          /\ sty'.res.status = "Ok"
          /\ sty'.a = DefaultStyle]_vars

\* C24: SGR code 49 sets the background to black and leaves the foreground and
\* the flags as they were.
C24_DefaultBackground ==
    [][(sty'.op = "apply" /\ feed'.input = Sgr(<<"4", "9">>)) =>
          /\ sty'.res.status = "Ok"
          /\ sty'.a = [sty.a EXCEPT !.background = Basic("Black")]]_vars

MoveTable ==
    {[code |-> <<ESC, "[", "D">>, dir |-> "left", n |-> 1],
     [code |-> <<ESC, "[", "2", "D">>, dir |-> "left", n |-> 2],
     [code |-> <<ESC, "[", "2", "A">>, dir |-> "up", n |-> 2],
     [code |-> <<ESC, "[", "B">>, dir |-> "down", n |-> 1],
     [code |-> <<ESC, "[", "0", "C">>, dir |-> "right", n |-> 0],
     [code |-> <<ESC, "[", "6", "5", "5", "3", "5", "C">>, dir |-> "right", n |-> 65535],
     [code |-> <<ESC, "[", "6", "5", "5", "3", "5", "B">>, dir |-> "down", n |-> 65535]}

\* where a saturating move by n in the direction leaves the cursor (x, y)
SaturatedMove(p, dir, n) ==
    CASE dir = "left" -> <<Max(0, p.cursor.x - n), p.cursor.y>>
      [] dir = "up" -> <<p.cursor.x, Max(0, p.cursor.y - n)>>
      [] dir = "right" -> <<Min(p.width, p.cursor.x + n), p.cursor.y>>
      [] dir = "down" -> <<p.cursor.x, Min(p.height, p.cursor.y + n)>>

\* C26: the four relative cursor moves saturate for every amount: left and up
\* stop at 0, right stops at the width, down at the height, with no 16-bit
\* wrap-around and the other coordinate unchanged.
C26_MovesSaturate ==
    [][steps' = steps + 1 =>
          \A m \in MoveTable :
              feed'.input = m.code =>
                  /\ ~pane'.panic
                  /\ <<pane'.cursor.x, pane'.cursor.y>> = SaturatedMove(pane, m.dir, m.n)]_vars

\* C27: cursor_down(n) takes lines from the top only in Scroll mode and only as
\* many as cursor.y + n lies beyond the bottom row; in Fixed mode, and whenever
\* cursor.y + n stays inside the pane, the stored lines are unchanged.
C27_DownKeepsLines ==
    [][steps' = steps + 1 =>
          \A m \in MoveTable :
              (feed'.input = m.code /\ m.dir = "down" /\ ~pane.logging
                 /\ (pane.scroll_mode = "Fixed" \/ pane.cursor.y + m.n < pane.height)) =>
                  /\ ~pane'.panic
                  /\ pane'.visible_lines = pane.visible_lines]_vars

\* C28: set(i, ch, style) leaves every other glyph as it was, makes the length
\* max(len, i + 1), fills positions len to i - 1 with spaces in the style of
\* the previously last glyph (the default style on an empty line), stores a
\* dirty glyph (ch, style) at i and marks the line dirty.
C28_SetFrame ==
    [][(steps' = steps + 1 /\ feed' # IdleFeed) =>
          LET old == hist.lines[1].glyphs
              new == hist'.lines[1].glyphs
              i == feed'.pos
          IN  /\ Len(new) = Max(Len(old), i + 1)
              /\ \A k \in 1..Len(old) : k # i + 1 => new[k] = old[k]
              /\ \A k \in (Len(old) + 1)..i :
                    new[k] = [c |-> " ", dirty |-> TRUE,
                              style |-> IF old = <<>> THEN DefaultStyle
                                        ELSE old[Len(old)].style]
              /\ new[i + 1] = [c |-> feed'.input[1], style |-> feed'.style, dirty |-> TRUE]
              /\ hist'.lines[1].dirty]_vars

\* a character was set two places beyond the end of a written line that ends
\* in a yellow glyph
C28_Witness ==
    /\ steps >= 3
    /\ feed # IdleFeed
    /\ feed.pos = 2
    /\ Len(hist.lines[1].glyphs) = 3
    /\ ~hist.lines[1].glyphs[1].dirty
    /\ hist.lines[1].glyphs[1].style = YellowStyle
    /\ hist.lines[1].glyphs[2] = [c |-> " ", style |-> YellowStyle, dirty |-> TRUE]
    /\ hist.lines[1].glyphs[3].style = DefaultStyle

\* C29: a TAB writes four space glyphs in the viewport's current style at the
\* cursor position and then moves the cursor right by 4, clamped.
C29_TabWritesAtCursor ==
    [][(steps' = steps + 1 /\ feed'.input = <<TAB>>) =>
          /\ ~pane'.panic
          /\ pane'.cursor.x = Min(pane.width, pane.cursor.x + 4)
          /\ Len(pane'.visible_lines) > pane'.cursor.y
          /\ LET glyphs == pane'.visible_lines[pane'.cursor.y + 1].glyphs
             IN  /\ Len(glyphs) >= pane.cursor.x + 4
                 /\ \A k \in 1..4 :
                       /\ glyphs[pane.cursor.x + k].c = " "
                       /\ glyphs[pane.cursor.x + k].style = pane.cur_style]_vars

\* C30: a sequence of a pass-through kind changes nothing in the viewport:
\* lines with their dirty flags, cursor and current style stay as they were.
C30_PassThroughKeepsViewport ==
    [][(steps' = steps + 1 /\ feed'.input \in PassCodes /\ ~pane.logging) =>
          /\ TokensOf(feed'.input)[1].kind \in
                {"PassThrough", "Unknown", "HideCursor", "ShowCursor", "GetCursorPos",
                 "EnterApplicationKeyMode", "ExitAltKeypadMode"}
          /\ ~pane'.panic
          /\ pane'.visible_lines = pane.visible_lines
          /\ pane'.cursor = pane.cursor
          /\ pane'.cur_style = pane.cur_style]_vars

\* C31: every control sequence classified PassThrough or Unknown is forwarded
\* to the host byte for byte, exactly once, behind what was forwarded before.
C31_PassThroughForwarded ==
    [][(steps' = steps + 1 /\ feed'.input \in PassCodes
          /\ TokensOf(feed'.input)[1].kind \in {"PassThrough", "Unknown"}) =>
          /\ ~pane'.panic
          /\ pane'.stdout = pane.stdout \o feed'.input]_vars

\* the row under the cursor is stored and the cursor is inside the pane
OnStoredRow(p) == p.cursor.y < p.height /\ p.cursor.y < Len(p.visible_lines)

BlankGlyph(g) == g.c = " " /\ g.style = DefaultStyle

SameGlyph(g, h) == g.c = h.c /\ g.style = h.style

\* C32: ESC [ 0 K does what ESC [ K does: the columns from the cursor to the end
\* of the current line become default-styled spaces, the columns left of the
\* cursor and the length of the line stay as they were.
C32_EraseAfterCursor ==
    [][(steps' = steps + 1 /\ OnStoredRow(pane)
          /\ feed'.input \in {<<ESC, "[", "K">>, <<ESC, "[", "0", "K">>}) =>
          LET old == pane.visible_lines[pane.cursor.y + 1].glyphs
              new == pane'.visible_lines[pane.cursor.y + 1].glyphs
          IN  /\ ~pane'.panic
              /\ Len(new) = Len(old)
              /\ \A k \in 1..Len(old) :
                    IF k <= pane.cursor.x THEN SameGlyph(new[k], old[k])
                    ELSE BlankGlyph(new[k])]_vars

\* C33: ESC [ 1 K clears columns 0 through the cursor column: the glyph under
\* the cursor and all glyphs left of it become default-styled spaces, the
\* glyphs right of the cursor stay as they were.
C33_EraseThroughCursor ==
    [][(steps' = steps + 1 /\ OnStoredRow(pane)
          /\ pane.cursor.x < Len(pane.visible_lines[pane.cursor.y + 1].glyphs)
          /\ feed'.input = <<ESC, "[", "1", "K">>) =>
          LET old == pane.visible_lines[pane.cursor.y + 1].glyphs
              new == pane'.visible_lines[pane.cursor.y + 1].glyphs
          IN  /\ ~pane'.panic
              /\ Len(new) = Len(old)
              /\ \A k \in 1..Len(old) :
                    IF k <= pane.cursor.x + 1 THEN BlankGlyph(new[k])
                    ELSE SameGlyph(new[k], old[k])]_vars

\* C34: ESC k starts a control sequence: the tokeniser keeps the two characters
\* pending instead of handing them on as plain text.
C34_EscKIsIntroducer ==
    [][(steps' = steps + 1 /\ feed'.input = <<ESC, "k">>) =>
          /\ pane'.stream_state.build_state = "FoundEsc"
          /\ pane'.stream_state.buffer = <<ESC, "k">>
          /\ \A i \in 1..Len(pane'.visible_lines) :
                \A j \in 1..Len(pane'.visible_lines[i].glyphs) :
                    pane'.visible_lines[i].glyphs[j].c # "k"]_vars

\* C35: the cursor-goto ESC [ 0 ; 0 H clamps at the lower bound and leaves the
\* cursor at (0, 0).
C35_GotoZeroClampsLow ==
    [][(steps' = steps + 1 /\ feed'.input = <<ESC, "[", "0", ";", "0", "H">>) =>
          /\ ~pane'.panic
          /\ pane'.cursor.x = 0
          /\ pane'.cursor.y = 0]_vars

\* C36: after a successful render, each host row pane.y + r, for r below the
\* number of stored lines, shows in columns pane.x to pane.x + width - 1 the
\* first `width` characters of stored line r, padded with spaces.
C36_HostShowsLines ==
    (renders > 0 /\ ~pane.panic) =>
        \A r \in 0..(Len(pane.visible_lines) - 1) :
            \A k \in 0..(pane.width - 1) :
                hist.lines[pane.y + r][pane.x + k] =
                    IF k < Len(pane.visible_lines[r + 1].glyphs)
                    THEN pane.visible_lines[r + 1].glyphs[k + 1].c
                    ELSE " "

\* C37: with ESC [ and parameter or intermediate characters pending, the first
\* character that is neither a parameter nor an intermediate character, other
\* than a new ESC, ends the sequence: the tokeniser is back in PlainText with
\* nothing pending.
C37_SequenceEnds ==
    [][(par'.last = "push" /\ IsPendingCsi(par.ss.buffer)
          /\ par'.pushed[Len(par'.pushed)] # ESC
          /\ ~IsParameter(par'.pushed[Len(par'.pushed)])
          /\ ~IsIntermediate(par'.pushed[Len(par'.pushed)])) =>
          /\ par'.ss.build_state = "PlainText"
          /\ par'.ss.buffer = <<>>]_vars

\* the "execute" commands the orchestrator has received
ExecuteCommands(c) == SelectSeq(c.received, LAMBDA r : r.command = <<"execute">>)

\* C38: whenever no call of MasterControl::execute is in progress and the
\* orchestrator has taken every command off the command channel, it has
\* received exactly one "execute" command for each call made, each for the
\* name of the call, and no "execute" response waits in the response channel
C38_ExecuteSendsOnce ==
    (ctl.pc = "main" /\ ctl.cmd = <<>>) =>
        /\ Len(ExecuteCommands(ctl)) = ctl.calls
        /\ \A i \in DOMAIN ExecuteCommands(ctl) : ExecuteCommands(ctl)[i].data \in TaskNames
        /\ \A i \in DOMAIN ctl.resp : ResponseType(ctl.resp[i]) # <<"execute">>

\* the commands received whose name does not start with "local"
NonLocal(c) == SelectSeq(c.received, LAMBDA r : ~StartsWithLocal(r.command))

\* what a response carries after its tag
ResponseBody(resp) == trim(JoinColon(Tail(SplitColon(resp))))

====
